---------------------------- MODULE Spec2Model ----------------------------
(***************************************************************************)
(* Sasoo analysis orchestration (backend/api/analysis.py) and the JSON     *)
(* response helpers of the model gateway (services/llm/gemini_client.py).  *)
(*                                                                         *)
(* The orchestrator part follows one paper_id through the in-memory        *)
(* registry (_running_analyses, _cancel_events), the request handlers      *)
(* run_analysis / cancel_analysis, the background task _run_full_analysis  *)
(* with its phase coroutines, and the analysis_results / papers tables.    *)
(* asyncio is single threaded: a step of the model is the code between two *)
(* suspension points (await) of one task.                                  *)
(*                                                                         *)
(* Money is counted in units of 1e-8 USD, so that the cost of one token at *)
(* a rate of c cents per 1M tokens is exactly c units.                     *)
(***************************************************************************)
EXTENDS Integers, Sequences, FiniteSets, TLC

(***************************************************************************)
(* Text of a model response, as a sequence of lexical chunks:              *)
(*   "F"  a bare code fence ```          "FJ" an opening fence ```json     *)
(*   "NL" a newline (whitespace)         "O"  a JSON object, e.g. {"a":1}  *)
(*   "E"  a JSON object that has the key "_parse_error"                   *)
(*   "W"  text that is not JSON (plain words, {"k": "v",} ...)             *)
(***************************************************************************)
Tok == {"F", "FJ", "NL", "O", "E", "W"}

MaxLen == 5

RECURSIVE LStrip(_)
LStrip(s) ==
  IF s # <<>> /\ Head(s) = "NL" THEN LStrip(Tail(s)) ELSE s

RECURSIVE RStrip(_)
RStrip(s) ==
  IF s # <<>> /\ s[Len(s)] = "NL" THEN RStrip(SubSeq(s, 1, Len(s) - 1)) ELSE s

Strip(s) == RStrip(LStrip(s))

StartsWithFence(s) == s # <<>> /\ s[1] \in {"F", "FJ"}

EndsWithFence(s) == s # <<>> /\ s[Len(s)] = "F"

HasNewline(s) == \E i \in 1..Len(s) : s[i] = "NL"

FirstNewline(s) == CHOOSE i \in 1..Len(s) : s[i] = "NL" /\ \A j \in 1..(i - 1) : s[j] # "NL"

RECURSIVE SplitLines(_)
SplitLines(s) ==
  IF HasNewline(s)
    THEN <<SubSeq(s, 1, FirstNewline(s) - 1)>>
           \o SplitLines(SubSeq(s, FirstNewline(s) + 1, Len(s)))
    ELSE <<s>>

RECURSIVE JoinLines(_)
JoinLines(ls) ==
  IF ls = <<>> THEN <<>>
  ELSE IF Len(ls) = 1 THEN ls[1]
  ELSE ls[1] \o <<"NL">> \o JoinLines(Tail(ls))

\* json.loads: leading and trailing whitespace is allowed around one value
JsonValid(s) == Strip(s) \in {<<"O">>, <<"E">>}

\* key in json.loads(s), for a text s that parses
JsonHasErrorKey(s) == Strip(s) = <<"E">>

\* api/analysis.py _clean_llm_json
clean_llm_json(text) ==
  LET cleaned == Strip(text)
      lines0  == SplitLines(cleaned)
      lines1  == IF lines0 # <<>> /\ StartsWithFence(Strip(lines0[1]))
                   THEN Tail(lines0) ELSE lines0
      lines2  == IF lines1 # <<>> /\ Strip(lines1[Len(lines1)]) = <<"F">>
                   THEN SubSeq(lines1, 1, Len(lines1) - 1) ELSE lines1
  IN  IF StartsWithFence(cleaned) THEN Strip(JoinLines(lines2)) ELSE cleaned

\* the payload a phase stores: the cleaned text when it parses, else
\* json.dumps({"_raw": cleaned_text, "_parse_error": str(exc)})
validate_json(text) ==
  LET cleaned_text == clean_llm_json(text)
  IN  IF JsonValid(cleaned_text)
        THEN [kind |-> "json", body |-> cleaned_text]
        ELSE [kind |-> "fallback", body |-> cleaned_text]

\* api/analysis.py _is_error_result, on a stored payload
is_error_result(res) ==
  \/ (res.kind = "json" /\ Strip(res.body) = <<>>)
  \/ res.kind = "fallback"
  \/ res.kind = "error"
  \/ (res.kind = "json" /\ JsonHasErrorKey(res.body))

\* services/llm/gemini_client.py _extract_json; cleaned.index("\n") raises
\* ValueError when the text opens with a fence and has no newline
extract_json(text) ==
  LET c0 == Strip(text)
      c1 == IF StartsWithFence(c0) THEN SubSeq(c0, FirstNewline(c0) + 1, Len(c0)) ELSE c0
      c2 == IF EndsWithFence(c1) THEN SubSeq(c1, 1, Len(c1) - 1) ELSE c1
      cleaned == Strip(c2)
  IN  IF StartsWithFence(c0) /\ ~HasNewline(c0)
        THEN [kind |-> "raised", body |-> <<>>]
      ELSE IF JsonValid(cleaned)
        THEN [kind |-> "json", body |-> cleaned]
        ELSE [kind |-> "fallback", body |-> text]

\* services/llm/gemini_client.py is_parse_error: "_parse_error" in result
is_parse_error(result) ==
  \/ result.kind = "fallback"
  \/ (result.kind = "json" /\ JsonHasErrorKey(result.body))

(***************************************************************************)
(* Pricing (services/pricing.py), rates in cents per 1M tokens.            *)
(***************************************************************************)
Models == {"gemini-3-flash-preview", "gemini-3-pro-preview",
           "gemini-3-pro-image-preview", "gemini-2.0-flash",
           "claude-sonnet-4-20250514", "claude-sonnet-4-5-20250929"}

PRICING ==
  [m \in Models |->
     CASE m = "gemini-3-flash-preview"      -> [input |-> 10,  output |-> 40]
       [] m = "gemini-3-pro-preview"        -> [input |-> 125, output |-> 500]
       [] m = "gemini-3-pro-image-preview"  -> [input |-> 125, output |-> 500]
       [] m = "gemini-2.0-flash"            -> [input |-> 10,  output |-> 40]
       [] m = "claude-sonnet-4-20250514"    -> [input |-> 300, output |-> 1500]
       [] m = "claude-sonnet-4-5-20250929"  -> [input |-> 300, output |-> 1500]]

calc_cost(model, input_tokens, output_tokens) ==
  LET pricing == IF model \in Models THEN PRICING[model]
                 ELSE PRICING["gemini-3-flash-preview"]
  IN  input_tokens * pricing.input + output_tokens * pricing.output


(***************************************************************************)
(* Orchestrator state.                                                     *)
(***************************************************************************)
\* start requests; the background task added by request h is run h
Reqs == {1, 2}
Runs == Reqs

MaxCancels == 1

PhaseCalls == {"screening", "visual", "recipe", "deep_dive", "viz_plan"}

\* what the provider does with the call of a phase: answer JSON (fenced),
\* answer text that is not JSON, raise, or (recipe, deep_dive) raise on the
\* Anthropic call and answer JSON on the Gemini fallback call
Outcomes == {"json", "text", "raise", "fallback"}

Scenario(down, text, fb) ==
  [p \in PhaseCalls |->
     IF p \in down THEN "raise"
     ELSE IF p \in text THEN "text"
     ELSE IF p \in fb THEN "fallback" ELSE "json"]

ProviderScenarios ==
  { Scenario({}, {}, {}),
    Scenario({}, {"screening", "recipe"}, {"deep_dive"}),
    Scenario({"screening"}, {}, {}),
    Scenario({"visual"}, {}, {}),
    Scenario({"screening", "visual"}, {}, {}),
    Scenario({"recipe"}, {"visual"}, {}),
    Scenario({"deep_dive"}, {}, {"recipe"}),
    Scenario({"viz_plan"}, {}, {}),
    Scenario(PhaseCalls, {}, {}) }

\* settings["monthly_budget_limit"], in cost units
BudgetLimits == {120, 6000}

ResponseText(outcome) ==
  IF outcome = "text" THEN <<"W">> ELSE <<"FJ", "NL", "O", "NL", "F">>

\* _call_gemini / _call_anthropic: the dict a successful call returns
call_gemini(outcome, model) ==
  [text |-> ResponseText(outcome), model |-> model, tokens_in |-> 2, tokens_out |-> 1]

call_anthropic(outcome) ==
  [text |-> ResponseText(outcome), model |-> "claude-sonnet-4-20250514",
   tokens_in |-> 2, tokens_out |-> 1]

\* try: _call_anthropic(prompt)  except Exception: _call_gemini(prompt)
call_with_fallback(outcome) ==
  IF outcome = "fallback" THEN call_gemini("json", "gemini-3-flash-preview")
  ELSE call_anthropic(outcome)

NoResult == [kind |-> "none", body |-> <<>>]

VARIABLES
  provider,              \* environment: outcome of each phase's provider call
  monthly_budget_limit,  \* settings row
  running_analyses,      \* _running_analyses restricted to paper_id: {} or {run}
  cancel_events,         \* _cancel_events restricted to paper_id: {} or {run}
  event_set,             \* is_set() of the Event each run created
  cleanup_pending,       \* runs whose _cleanup_stale task is sleeping, in the
                         \* order the tasks were created (all sleep 3600 s)
  req,                   \* run_analysis handlers: position, HTTP status, and the
                         \* registry entries the handler deleted (history)
  cancels_left,          \* cancel requests still to be issued
  cancel_resp,           \* HTTP status of the last cancel request (0: none yet)
  pc,                    \* position of each _run_full_analysis task
  pcS,                   \* position of its _run_screening task
  pcV,                   \* position of its _run_visual task
  overall_status,        \* AnalysisStatus.overall_status of each run
  progress_pct,          \* AnalysisStatus.progress_pct
  phases,                \* AnalysisStatus.phases
  total_cost_usd,        \* AnalysisStatus.total_cost_usd
  total_tokens_in,       \* AnalysisStatus.total_tokens_in
  results,               \* r1..r4 of each run: the stored payloads
  previous,              \* the list `previous` of each run
  paper_status,          \* papers.status
  analysis_results,      \* rows of table analysis_results
  screening_domain,      \* "domain" of the answer each _run_screening task holds
                         \* ("none": the task holds no answer)
  latest_screening,      \* "domain" of the newest screening row ("none": no row)
  recipe_hint,           \* domain_hint in each run's Recipe prompt ("none": not built)
  lock_holder,           \* the coroutine that holds _analyses_lock ("none": free)
  jtext,                 \* a response text handed to the JSON helpers
  jpc,                   \* which helper has been applied to jtext
  jresult,               \* what the helper returned
  client,                \* gateway method under call
  script,                \* environment: what the provider does on each attempt
  gw_pc,                 \* position of the gateway call
  attempt,               \* loop variable of `for attempt in range(3)`
  calls,                 \* provider requests made by the call (history)
  waits,                 \* asyncio.sleep durations of the call (history)
  cost_fn,               \* cost function under call
  cost_model,            \* its arguments
  cost_tokens_in,
  cost_tokens_out,
  cost_usd,              \* its return value (-1: not called yet)
  hits,                  \* per domain: <<score, matched keywords>> of title+abstract
  gemini,                \* DomainRouter._gemini is not None
  dr_pc,                 \* position of DomainRouter.classify
  keyword_result,        \* result of _keyword_classify
  semantic,              \* answer of GeminiClient.classify_domain
  dr_result,             \* what classify returned
  vr_fn,                 \* "route" (VizRouter.route) or "plan" (_plan_visualizations)
  vr_gemini,             \* VizRouter._gemini is not None
  recipe_result,         \* what the heuristic finds in the Recipe result
  deep_dive_result,      \* what the heuristic finds in the Deep-Dive result
  vr_pc,                 \* position of the routing call
  llm_response,          \* the classifier's (planner's) answer
  targets,               \* the returned list of targets
  viz_plan,              \* the planned items: the tool of each
  viz_pc,                \* position of _run_visualizations
  item_pc,               \* position of each generate_one task
  item_status,           \* result_item["status"] of each task
  render_outcome,        \* what the model call or the bridge did (history)
  placeholder,           \* what the PIL fallback did (history)
  generated_items,       \* the statuses stored in the visualization row
  dd_outputs,            \* r1, r2, r3: the stored text of each earlier phase
  dd_pc,                 \* position between the gather and the Deep-Dive prompt
  dd_previous,           \* the list `previous` handed to _run_deep_dive
  prev_context,          \* what of each output is in the Deep-Dive prompt
  diagram,               \* one diagram of the classifier's answer, or one finding
                         \* of the heuristic
  tg_pc,                 \* position of the construction of its VizTarget
  viz_target,            \* the VizTarget: its category and render_target
  ro_pc,                 \* the await at which one _run_full_analysis task stands
  ro_status,             \* status.overall_status of that run
  ro_event,              \* cancel_event.is_set()
  ro_log                 \* the awaits passed so far and how each ended (history)

regVars == <<running_analyses, cancel_events, event_set, cleanup_pending>>
runVars == <<pc, pcS, pcV, overall_status, progress_pct, phases,
             total_cost_usd, total_tokens_in, results, previous>>
envVars == <<provider, monthly_budget_limit>>
jsonVars == <<jtext, jpc, jresult>>
cancelVars == <<cancels_left, cancel_resp>>
gwVars == <<client, script, gw_pc, attempt, calls, waits>>
costVars == <<cost_fn, cost_model, cost_tokens_in, cost_tokens_out, cost_usd>>
drVars == <<hits, gemini, dr_pc, keyword_result, semantic, dr_result>>
vrVars == <<vr_fn, vr_gemini, recipe_result, deep_dive_result, vr_pc, llm_response,
            targets>>
renderVars == <<viz_plan, viz_pc, item_pc, item_status, render_outcome, placeholder,
                generated_items>>
ctxVars == <<dd_outputs, dd_pc, dd_previous, prev_context>>
tgtVars == <<diagram, tg_pc, viz_target>>
outVars == <<ro_pc, ro_status, ro_event, ro_log>>
miniVars == <<jsonVars, gwVars, costVars, drVars, vrVars, renderVars, ctxVars, tgtVars,
              outVars>>
hintVars == <<screening_domain, latest_screening, recipe_hint>>
lockVars == <<lock_holder>>
auxVars == <<miniVars, hintVars, lockVars>>
vars == <<provider, monthly_budget_limit, running_analyses, cancel_events,
          event_set, cleanup_pending, req, cancels_left, cancel_resp, pc, pcS, pcV,
          overall_status, progress_pct, phases, total_cost_usd,
          total_tokens_in, results, previous, paper_status, analysis_results,
          screening_domain, latest_screening, recipe_hint, lock_holder,
          jtext, jpc, jresult, client, script, gw_pc, attempt, calls, waits,
          cost_fn, cost_model, cost_tokens_in, cost_tokens_out, cost_usd,
          hits, gemini, dr_pc, keyword_result, semantic, dr_result,
          vr_fn, vr_gemini, recipe_result, deep_dive_result, vr_pc, llm_response,
          targets, viz_plan, viz_pc, item_pc, item_status, render_outcome,
          placeholder, generated_items,
          dd_outputs, dd_pc, dd_previous, prev_context,
          diagram, tg_pc, viz_target, ro_pc, ro_status, ro_event, ro_log>>

Max(a, b) == IF a >= b THEN a ELSE b

RECURSIVE SumCost(_)
SumCost(rows) ==
  IF rows = {} THEN 0
  ELSE LET x == CHOOSE x \in rows : TRUE
       IN  x.cost_usd + SumCost(rows \ {x})

\* run_analysis: sum of cost_usd over the month's rows with phase != 'error'
current_spending == SumCost({x \in analysis_results : x.phase # "error"})

Row(r, phase, res, model, tin, tout, cost) ==
  [run |-> r, phase |-> phase, result |-> res, model_used |-> model,
   tokens_in |-> tin, tokens_out |-> tout, cost_usd |-> cost]

PhaseStatus(phase, status) ==
  [phase |-> phase, status |-> status, cost_usd |-> 0, tokens_in |-> 0]

\* phase_status.status = "completed"; phase_status.tokens_in = tokens_in;
\* phase_status.cost_usd = cost
CompletePhase(ps, phase, cost, tokens_in) ==
  [i \in 1..Len(ps) |->
     IF ps[i].phase = phase
       THEN [ps[i] EXCEPT !.status = "completed", !.cost_usd = cost,
                          !.tokens_in = tokens_in]
       ELSE ps[i]]

\* status.phases[-1].status = "error"
ErrorLastPhase(ps) ==
  IF ps = <<>> THEN ps
  ELSE [ps EXCEPT ![Len(ps)] = [@ EXCEPT !.status = "error"]]

\* previous.append(r["text"]) if r.get("text") and not _is_error_result(r["text"])
AppendIfOk(prev, res) ==
  IF res.body # <<>> /\ ~is_error_result(res) THEN Append(prev, res) ELSE prev

\* the JSON helpers and the gateway are not under call
JsonIdle == jtext = <<>> /\ jpc = "idle" /\ jresult = NoResult

GwIdle ==
  /\ client = "none" /\ script = <<>> /\ gw_pc = "idle"
  /\ attempt = 0 /\ calls = 0 /\ waits = <<>>

CostIdle ==
  /\ cost_fn = "none" /\ cost_model = "none" /\ cost_tokens_in = 0 /\ cost_tokens_out = 0
  /\ cost_usd = -1

NoDomainResult ==
  [domain |-> "none", confidence |-> 0, method |-> "none", needs_confirmation |-> FALSE]

NoSemantic == [kind |-> "none", domain |-> "none", confidence |-> 0]

DrIdle ==
  /\ hits = <<>> /\ gemini = FALSE /\ dr_pc = "idle"
  /\ keyword_result = NoDomainResult /\ semantic = NoSemantic
  /\ dr_result = NoDomainResult

NoRecipe == [present |-> FALSE, steps |-> FALSE, equipment |-> FALSE, parameters |-> FALSE]
NoDeepDive == [present |-> FALSE, analysis |-> FALSE, comparison |-> FALSE]
NoResponse == [kind |-> "none", n |-> 0]

VrIdle ==
  /\ vr_fn = "none" /\ vr_gemini = FALSE /\ recipe_result = NoRecipe
  /\ deep_dive_result = NoDeepDive /\ vr_pc = "idle" /\ llm_response = NoResponse
  /\ targets = <<>>

CtxIdle ==
  /\ dd_outputs = <<>> /\ dd_pc = "idle" /\ dd_previous = <<>> /\ prev_context = <<>>

NoDiagram == [from |-> "none", category |-> "", render_target |-> "", pb_score |-> 0,
              mm_score |-> 0]

NoTarget == [category |-> "", render_target |-> "none"]

TgtIdle == diagram = NoDiagram /\ tg_pc = "idle" /\ viz_target = NoTarget

OutIdle == ro_pc = "idle" /\ ro_status = "none" /\ ro_event = FALSE /\ ro_log = <<>>

RenderIdle ==
  /\ viz_plan = <<>> /\ viz_pc = "idle" /\ item_pc = <<>> /\ item_status = <<>>
  /\ render_outcome = <<>> /\ placeholder = <<>> /\ generated_items = <<>>

Init ==
  /\ provider \in ProviderScenarios
  /\ monthly_budget_limit \in BudgetLimits
  /\ running_analyses = {}
  /\ cancel_events = {}
  /\ event_set = [r \in Runs |-> FALSE]
  /\ cleanup_pending = <<>>
  /\ req = [h \in Reqs |-> [pc |-> "idle", resp |-> 0, cleared |-> {}]]
  /\ cancels_left = MaxCancels
  /\ cancel_resp = 0
  /\ pc = [r \in Runs |-> "none"]
  /\ pcS = [r \in Runs |-> "none"]
  /\ pcV = [r \in Runs |-> "none"]
  /\ overall_status = [r \in Runs |-> "none"]
  /\ progress_pct = [r \in Runs |-> 0]
  /\ phases = [r \in Runs |-> <<>>]
  /\ total_cost_usd = [r \in Runs |-> 0]
  /\ total_tokens_in = [r \in Runs |-> 0]
  /\ results = [r \in Runs |-> [p \in PhaseCalls |-> NoResult]]
  /\ previous = [r \in Runs |-> <<>>]
  /\ paper_status = "pending"
  /\ analysis_results = {}
  /\ screening_domain = [r \in Runs |-> "none"]
  /\ latest_screening = "none"
  /\ recipe_hint = [r \in Runs |-> "none"]
  /\ lock_holder = "none"
  /\ JsonIdle
  /\ GwIdle
  /\ CostIdle
  /\ DrIdle
  /\ VrIdle
  /\ RenderIdle
  /\ CtxIdle
  /\ TgtIdle
  /\ OutIdle

(***************************************************************************)
(* _analyses_lock = asyncio.Lock().  Each `async with _analyses_lock:`     *)
(* block is entered only when the lock is free; its body has no await, so  *)
(* the block is left in the step that entered it.                          *)
(***************************************************************************)
\* the block of _run_full_analysis not closed before the coroutine goes on:
\* everything after `async with` indented into it
WithLock_body_inside(holder) ==
  /\ lock_holder = "none"
  /\ lock_holder' = IF holder = "_run_full_analysis" THEN holder ELSE "none"

\* async with _analyses_lock: <no await>; __aexit__ releases the lock
WithLock(holder) ==
  /\ lock_holder = "none"
  /\ lock_holder' = "none"

(***************************************************************************)
(* run_analysis (POST /{paper_id}/run).  The handler suspends between the  *)
(* lock section, the budget query and the DELETE.                          *)
(***************************************************************************)
Respond(h, code) == req' = [req EXCEPT ![h].pc = "done", ![h].resp = code]

\* async with _analyses_lock: 409 if the entry is running, else drop the entry
StartCheck(h) ==
  /\ req[h].pc = "idle"
  /\ WithLock("run_analysis")
  /\ IF \E r \in running_analyses : overall_status[r] = "running"
       THEN /\ Respond(h, 409)
            /\ UNCHANGED running_analyses
       ELSE /\ running_analyses' = {}
            /\ req' = [req EXCEPT ![h].pc = "budget", ![h].cleared = running_analyses]
  /\ UNCHANGED <<envVars, miniVars, hintVars, cancel_events, event_set, cleanup_pending,
                 cancelVars, runVars, paper_status, analysis_results>>

\* the comparison written as > instead of >=
StartBudget_strict(h) ==
  /\ req[h].pc = "budget"
  /\ IF current_spending > monthly_budget_limit
       THEN Respond(h, 402)
       ELSE req' = [req EXCEPT ![h].pc = "delete"]
  /\ UNCHANGED <<envVars, auxVars, regVars, cancelVars, runVars, paper_status, analysis_results>>

\* current_spending >= monthly_limit: 402
StartBudget(h) ==
  /\ req[h].pc = "budget"
  /\ IF current_spending >= monthly_budget_limit
       THEN Respond(h, 402)
       ELSE req' = [req EXCEPT ![h].pc = "delete"]
  /\ UNCHANGED <<envVars, auxVars, regVars, cancelVars, runVars, paper_status, analysis_results>>

\* DELETE FROM analysis_results WHERE paper_id = ?; add_task; 202
StartLaunch(h) ==
  /\ req[h].pc = "delete"
  /\ analysis_results' = {}
  /\ latest_screening' = "none"
  /\ pc' = [pc EXCEPT ![h] = "new"]
  /\ Respond(h, 202)
  /\ UNCHANGED <<envVars, miniVars, lockVars, screening_domain, recipe_hint, regVars, cancelVars, pcS, pcV, overall_status,
                 progress_pct, phases, total_cost_usd, total_tokens_in, results,
                 previous, paper_status>>

(***************************************************************************)
(* cancel_analysis (POST /{paper_id}/cancel)                               *)
(***************************************************************************)
cancel_analysis ==
  /\ cancels_left > 0
  /\ cancels_left' = cancels_left - 1
  /\ IF cancel_events # {}
       THEN /\ event_set' = [r \in Runs |-> event_set[r] \/ r \in cancel_events]
            /\ cancel_resp' = 200
            /\ UNCHANGED <<overall_status, paper_status>>
       ELSE IF \E r \in running_analyses : overall_status[r] = "running"
         THEN /\ overall_status' = [r \in Runs |->
                   IF r \in running_analyses THEN "cancelled" ELSE overall_status[r]]
              /\ paper_status' = "cancelled"
              /\ cancel_resp' = 200
              /\ UNCHANGED event_set
         ELSE /\ cancel_resp' = 404
              /\ UNCHANGED <<event_set, overall_status, paper_status>>
  /\ UNCHANGED <<envVars, auxVars, running_analyses, cancel_events, cleanup_pending, req,
                 pc, pcS, pcV, progress_pct, phases, total_cost_usd,
                 total_tokens_in, results, previous, analysis_results>>

(***************************************************************************)
(* _run_full_analysis                                                      *)
(***************************************************************************)
\* the "domain" field of what _run_screening stores: the answer's own when the
\* answer is JSON, none ("") in the fallback payload {"_raw", "_parse_error"}
ScreeningDomains == {"optics", "bio"}

answer_domains(outcome) == IF outcome = "json" THEN ScreeningDomains ELSE {""}

\* _run_recipe: domain_hint, from the newest screening row of the paper
domain_hint(domain) ==
  CASE domain = "none"   -> ""
    [] domain = "optics" -> "optics"
    [] domain = "bio"    -> "bio"
    [] OTHER             -> "generic"

\* finally: _cancel_events.pop(paper_id, None); create_task(_cleanup_stale())
Finally(r) ==
  /\ cancel_events' = {}
  /\ cleanup_pending' = Append(cleanup_pending, r)

\* if cancel_event.is_set(): status.overall_status = "cancelled"; await UPDATE
Cancelled(r) ==
  /\ overall_status' = [overall_status EXCEPT ![r] = "cancelled"]
  /\ pc' = [pc EXCEPT ![r] = "cancelling"]

\* _running_analyses[paper_id] = status; _cancel_events[paper_id] = Event()
Register(r) ==
  /\ pc[r] = "new"
  /\ WithLock("_run_full_analysis")
  /\ running_analyses' = {r}
  /\ cancel_events' = {r}
  /\ event_set' = [event_set EXCEPT ![r] = FALSE]
  /\ overall_status' = [overall_status EXCEPT ![r] = "running"]
  /\ pc' = [pc EXCEPT ![r] = "mark"]
  /\ UNCHANGED <<envVars, miniVars, hintVars, cleanup_pending, req, cancelVars, pcS, pcV,
                 progress_pct, phases, total_cost_usd, total_tokens_in, results, previous,
                 paper_status, analysis_results>>

\* UPDATE papers SET status = 'analyzing'
MarkAnalyzing(r) ==
  /\ pc[r] = "mark"
  /\ paper_status' = "analyzing"
  /\ pc' = [pc EXCEPT ![r] = "load"]
  /\ UNCHANGED <<envVars, auxVars, regVars, req, cancelVars, pcS, pcV, overall_status,
                 progress_pct, phases, total_cost_usd, total_tokens_in, results,
                 previous, analysis_results>>

\* paper loaded; first cancellation check; asyncio.gather(_run_screening, _run_visual)
LoadAndGather(r) ==
  /\ pc[r] = "load"
  /\ IF event_set[r]
       THEN /\ Cancelled(r)
            /\ UNCHANGED <<pcS, pcV>>
       ELSE /\ pc' = [pc EXCEPT ![r] = "gather"]
            /\ pcS' = [pcS EXCEPT ![r] = "new"]
            /\ pcV' = [pcV EXCEPT ![r] = "new"]
            /\ UNCHANGED overall_status
  /\ UNCHANGED <<envVars, auxVars, regVars, req, cancelVars, progress_pct, phases,
                 total_cost_usd, total_tokens_in, results, previous, paper_status,
                 analysis_results>>

\* UPDATE papers SET status = 'cancelled'; return
CancelPersist(r) ==
  /\ pc[r] = "cancelling"
  /\ paper_status' = "cancelled"
  /\ pc' = [pc EXCEPT ![r] = "done"]
  /\ Finally(r)
  /\ UNCHANGED <<envVars, auxVars, running_analyses, event_set, req, cancelVars, pcS, pcV,
                 overall_status, progress_pct, phases, total_cost_usd,
                 total_tokens_in, results, previous, analysis_results>>

(***************************************************************************)
(* Phase coroutines.  XCall is the return of the provider call up to the   *)
(* INSERT, XFinish the INSERT and the status update after it.              *)
(***************************************************************************)
\* status.phases.append(PhaseStatus(phase, "running"))
StartPhase(r, phase) == phases' = [phases EXCEPT ![r] = Append(@, PhaseStatus(phase, "running"))]

\* status.progress_pct = max(status.progress_pct, floor); totals += this call
\* the floor assigned instead of max(progress_pct, floor)
progress_assign(old, floor) == floor

progress_floor(old, floor) == Max(old, floor)

\* the totals assigned (=) instead of added to (+=)
UpdateStatus_assign(r, res, floor) ==
  /\ progress_pct' = [progress_pct EXCEPT ![r] = progress_floor(@, floor)]
  /\ total_cost_usd' = [total_cost_usd EXCEPT
                          ![r] = calc_cost(res.model, res.tokens_in, res.tokens_out)]
  /\ total_tokens_in' = [total_tokens_in EXCEPT ![r] = res.tokens_in]

UpdateStatus(r, res, floor) ==
  /\ progress_pct' = [progress_pct EXCEPT ![r] = progress_floor(@, floor)]
  /\ total_cost_usd' = [total_cost_usd EXCEPT
                          ![r] = @ + calc_cost(res.model, res.tokens_in, res.tokens_out)]
  /\ total_tokens_in' = [total_tokens_in EXCEPT ![r] = @ + res.tokens_in]

\* execute_insert(INSERT INTO analysis_results ...)
InsertResult(r, phase, res) ==
  analysis_results' = analysis_results \cup
    {Row(r, phase, results[r][phase], res.model, res.tokens_in, res.tokens_out,
         calc_cost(res.model, res.tokens_in, res.tokens_out))}

\* The two tasks made by gather take their first steps back to back, in
\* argument order, before any provider call can return: each appends its
\* PhaseStatus and suspends in _call_gemini (_run_visual after fetch_all).
GatherStart(r) ==
  /\ pcS[r] = "new" /\ pcV[r] = "new"
  /\ phases' = [phases EXCEPT ![r] =
       Append(Append(@, PhaseStatus("screening", "running")), PhaseStatus("visual", "running"))]
  /\ pcS' = [pcS EXCEPT ![r] = "call"]
  /\ pcV' = [pcV EXCEPT ![r] = "call"]
  /\ UNCHANGED <<envVars, auxVars, regVars, req, cancelVars, pc, overall_status,
                 progress_pct, total_cost_usd, total_tokens_in, results, previous,
                 paper_status, analysis_results>>

ScreeningCall(r) ==
  /\ pcS[r] = "call"
  /\ IF provider["screening"] = "raise"
       THEN /\ pcS' = [pcS EXCEPT ![r] = "raised"]
            /\ UNCHANGED <<results, screening_domain>>
       ELSE /\ pcS' = [pcS EXCEPT ![r] = "insert"]
            /\ results' = [results EXCEPT ![r]["screening"] =
                 validate_json(call_gemini(provider["screening"], "gemini-3-flash-preview").text)]
            /\ \E d \in answer_domains(provider["screening"]) :
                 screening_domain' = [screening_domain EXCEPT ![r] = d]
  /\ UNCHANGED <<envVars, miniVars, lockVars, latest_screening, recipe_hint, regVars, req, cancelVars, pc, pcV, overall_status,
                 progress_pct, phases, total_cost_usd, total_tokens_in, previous,
                 paper_status, analysis_results>>

ScreeningFinish(r) ==
  LET res == call_gemini(provider["screening"], "gemini-3-flash-preview") IN
  /\ pcS[r] = "insert"
  /\ InsertResult(r, "screening", res)
  /\ phases' = [phases EXCEPT ![r] = CompletePhase(@, "screening",
                   calc_cost(res.model, res.tokens_in, res.tokens_out), res.tokens_in)]
  /\ UpdateStatus(r, res, 20)
  /\ pcS' = [pcS EXCEPT ![r] = "done"]
  /\ latest_screening' = screening_domain[r]
  /\ screening_domain' = [screening_domain EXCEPT ![r] = "none"]
  /\ UNCHANGED <<envVars, miniVars, lockVars, recipe_hint, regVars, req,
                 cancelVars, pc, pcV, overall_status, results, previous, paper_status>>

VisualCall(r) ==
  /\ pcV[r] = "call"
  /\ IF provider["visual"] = "raise"
       THEN /\ pcV' = [pcV EXCEPT ![r] = "raised"]
            /\ UNCHANGED results
       ELSE /\ pcV' = [pcV EXCEPT ![r] = "insert"]
            /\ results' = [results EXCEPT ![r]["visual"] =
                 validate_json(call_gemini(provider["visual"], "gemini-3-flash-preview").text)]
  /\ UNCHANGED <<envVars, auxVars, regVars, req, cancelVars, pc, pcS, overall_status,
                 progress_pct, phases, total_cost_usd, total_tokens_in, previous,
                 paper_status, analysis_results>>

VisualFinish(r) ==
  LET res == call_gemini(provider["visual"], "gemini-3-flash-preview") IN
  /\ pcV[r] = "insert"
  /\ InsertResult(r, "visual", res)
  /\ phases' = [phases EXCEPT ![r] = CompletePhase(@, "visual",
                   calc_cost(res.model, res.tokens_in, res.tokens_out), res.tokens_in)]
  /\ UpdateStatus(r, res, 40)
  /\ pcV' = [pcV EXCEPT ![r] = "done"]
  /\ UNCHANGED <<envVars, auxVars, regVars, req, cancelVars, pc, pcS, overall_status,
                 results, previous, paper_status>>

\* gather(return_exceptions=False): the first exception is raised in the caller
GatherRaise(r) ==
  /\ pc[r] = "gather"
  /\ pcS[r] = "raised" \/ pcV[r] = "raised"
  /\ pc' = [pc EXCEPT ![r] = "err_update"]
  /\ UNCHANGED <<envVars, auxVars, regVars, req, cancelVars, pcS, pcV, overall_status,
                 progress_pct, phases, total_cost_usd, total_tokens_in, results,
                 previous, paper_status, analysis_results>>

\* the wait ends with the first task that returns (FIRST_COMPLETED)
gather_first_completed(r) == pcS[r] = "done" \/ pcV[r] = "done"

\* r1, r2 = await asyncio.gather(...): both tasks have returned
gather_returned(r) == pcS[r] = "done" /\ pcV[r] = "done"

\* r1, r2 returned; cancellation check; previous; _run_recipe up to its query
GatherDone(r) ==
  /\ pc[r] = "gather"
  /\ gather_returned(r)
  /\ IF event_set[r]
       THEN /\ Cancelled(r)
            /\ UNCHANGED <<phases, previous>>
       ELSE /\ previous' = [previous EXCEPT ![r] =
                 AppendIfOk(AppendIfOk(<<>>, results[r]["screening"]), results[r]["visual"])]
            /\ StartPhase(r, "recipe")
            /\ pc' = [pc EXCEPT ![r] = "recipe_fetch"]
            /\ UNCHANGED overall_status
  /\ UNCHANGED <<envVars, auxVars, regVars, req, cancelVars, pcS, pcV, progress_pct,
                 total_cost_usd, total_tokens_in, results, paper_status,
                 analysis_results>>

\* SELECT result FROM analysis_results WHERE phase = 'screening' ORDER BY
\* created_at DESC LIMIT 1; the prompt with its domain_hint; up to the call
RecipeFetch(r) ==
  /\ pc[r] = "recipe_fetch"
  /\ recipe_hint' = [recipe_hint EXCEPT ![r] = domain_hint(latest_screening)]
  /\ pc' = [pc EXCEPT ![r] = "recipe_call"]
  /\ UNCHANGED <<envVars, miniVars, lockVars, screening_domain, latest_screening, regVars, req,
                 cancelVars, pcS, pcV, overall_status, progress_pct, phases,
                 total_cost_usd, total_tokens_in, results, previous, paper_status,
                 analysis_results>>

RecipeCall(r) ==
  /\ pc[r] = "recipe_call"
  /\ IF provider["recipe"] = "raise"
       THEN /\ pc' = [pc EXCEPT ![r] = "err_update"]
            /\ UNCHANGED results
       ELSE /\ pc' = [pc EXCEPT ![r] = "recipe_insert"]
            /\ results' = [results EXCEPT ![r]["recipe"] =
                 validate_json(call_with_fallback(provider["recipe"]).text)]
  /\ UNCHANGED <<envVars, auxVars, regVars, req, cancelVars, pcS, pcV, overall_status,
                 progress_pct, phases, total_cost_usd, total_tokens_in, previous,
                 paper_status, analysis_results>>

\* INSERT, status update, return; cancellation check; _run_deep_dive up to its call
RecipeFinish(r) ==
  LET res == call_with_fallback(provider["recipe"])
      ps  == CompletePhase(phases[r], "recipe",
                           calc_cost(res.model, res.tokens_in, res.tokens_out), res.tokens_in) IN
  /\ pc[r] = "recipe_insert"
  /\ InsertResult(r, "recipe", res)
  /\ UpdateStatus(r, res, 60)
  /\ IF event_set[r]
       THEN /\ Cancelled(r)
            /\ phases' = [phases EXCEPT ![r] = ps]
            /\ UNCHANGED previous
       ELSE /\ previous' = [previous EXCEPT ![r] = AppendIfOk(@, results[r]["recipe"])]
            /\ phases' = [phases EXCEPT ![r] = Append(ps, PhaseStatus("deep_dive", "running"))]
            /\ pc' = [pc EXCEPT ![r] = "deep_call"]
            /\ UNCHANGED overall_status
  /\ UNCHANGED <<envVars, auxVars, regVars, req, cancelVars, pcS, pcV, results, paper_status>>

DeepDiveCall(r) ==
  /\ pc[r] = "deep_call"
  /\ IF provider["deep_dive"] = "raise"
       THEN /\ pc' = [pc EXCEPT ![r] = "err_update"]
            /\ UNCHANGED results
       ELSE /\ pc' = [pc EXCEPT ![r] = "deep_insert"]
            /\ results' = [results EXCEPT ![r]["deep_dive"] =
                 validate_json(call_with_fallback(provider["deep_dive"]).text)]
  /\ UNCHANGED <<envVars, auxVars, regVars, req, cancelVars, pcS, pcV, overall_status,
                 progress_pct, phases, total_cost_usd, total_tokens_in, previous,
                 paper_status, analysis_results>>

\* INSERT, status update, return; cancellation check; _plan_visualizations up to its call
DeepDiveFinish(r) ==
  LET res == call_with_fallback(provider["deep_dive"]) IN
  /\ pc[r] = "deep_insert"
  /\ InsertResult(r, "deep_dive", res)
  /\ UpdateStatus(r, res, 80)
  /\ phases' = [phases EXCEPT ![r] = CompletePhase(@, "deep_dive",
                   calc_cost(res.model, res.tokens_in, res.tokens_out), res.tokens_in)]
  /\ IF event_set[r]
       THEN /\ Cancelled(r)
            /\ UNCHANGED previous
       ELSE /\ previous' = [previous EXCEPT ![r] = AppendIfOk(@, results[r]["deep_dive"])]
            /\ pc' = [pc EXCEPT ![r] = "plan_call"]
            /\ UNCHANGED overall_status
  /\ UNCHANGED <<envVars, auxVars, regVars, req, cancelVars, pcS, pcV, results, paper_status>>

(***************************************************************************)
(* Phase 5: _run_visualizations, inside try/except in _run_full_analysis   *)
(***************************************************************************)
\* lines = [l for l in lines if not l.strip().startswith("```")]
RECURSIVE DropFenceLines(_)
DropFenceLines(ls) ==
  IF ls = <<>> THEN <<>>
  ELSE IF StartsWithFence(Strip(ls[1])) THEN DropFenceLines(Tail(ls))
  ELSE <<ls[1]>> \o DropFenceLines(Tail(ls))

\* _plan_visualizations: the parsed plan, or the single default flowchart
parse_plan(text) ==
  LET raw0 == Strip(text)
      raw  == IF StartsWithFence(raw0)
                THEN Strip(JoinLines(DropFenceLines(SplitLines(raw0)))) ELSE raw0
  IN  IF JsonValid(raw) THEN [kind |-> "plan", body |-> raw]
      ELSE [kind |-> "default_plan", body |-> <<>>]

\* last cancellation check, then UPDATE papers SET status = 'completed'
FinalCheck(r) ==
  IF event_set[r]
    THEN Cancelled(r)
    ELSE /\ pc' = [pc EXCEPT ![r] = "complete"]
         /\ UNCHANGED overall_status

\* the planner call returns; an exception is swallowed by `except Exception as viz_err`
PlanCall(r) ==
  LET res == call_gemini(provider["viz_plan"], "gemini-3-pro-preview") IN
  /\ pc[r] = "plan_call"
  /\ IF provider["viz_plan"] = "raise"
       THEN /\ FinalCheck(r)
            /\ UNCHANGED <<total_cost_usd, total_tokens_in, results>>
       ELSE /\ total_cost_usd' = [total_cost_usd EXCEPT
                 ![r] = @ + calc_cost(res.model, res.tokens_in, res.tokens_out)]
            /\ total_tokens_in' = [total_tokens_in EXCEPT ![r] = @ + res.tokens_in]
            /\ results' = [results EXCEPT ![r]["viz_plan"] = parse_plan(res.text)]
            /\ pc' = [pc EXCEPT ![r] = "plan_insert"]
            /\ UNCHANGED overall_status
  /\ UNCHANGED <<envVars, auxVars, regVars, req, cancelVars, pcS, pcV, progress_pct, phases,
                 previous, paper_status, analysis_results>>

\* INSERT the viz_plan row; gather(generate_one...) is started
PlanStore(r) ==
  /\ pc[r] = "plan_insert"
  /\ InsertResult(r, "viz_plan", call_gemini(provider["viz_plan"], "gemini-3-pro-preview"))
  /\ pc' = [pc EXCEPT ![r] = "viz_insert"]
  /\ UNCHANGED <<envVars, auxVars, regVars, req, cancelVars, pcS, pcV, overall_status,
                 progress_pct, phases, total_cost_usd, total_tokens_in, results,
                 previous, paper_status>>

\* the renders returned; INSERT the visualization row; progress_pct = 100.0
VizStore(r) ==
  /\ pc[r] = "viz_insert"
  /\ analysis_results' = analysis_results \cup
       {Row(r, "visualization", [kind |-> "viz", body |-> <<>>],
            "gemini-3-pro-preview", 0, 0, 0)}
  /\ progress_pct' = [progress_pct EXCEPT ![r] = 100]
  /\ FinalCheck(r)
  /\ UNCHANGED <<envVars, auxVars, regVars, req, cancelVars, pcS, pcV, phases,
                 total_cost_usd, total_tokens_in, results, previous, paper_status>>

\* UPDATE papers SET status = 'completed'; status.overall_status = "completed"
Complete(r) ==
  /\ pc[r] = "complete"
  /\ paper_status' = "completed"
  /\ overall_status' = [overall_status EXCEPT ![r] = "completed"]
  /\ pc' = [pc EXCEPT ![r] = "done"]
  /\ Finally(r)
  /\ UNCHANGED <<envVars, auxVars, running_analyses, event_set, req, cancelVars, pcS, pcV,
                 progress_pct, phases, total_cost_usd, total_tokens_in, results,
                 previous, analysis_results>>

\* the handler without `status.overall_status = "error"`
ErrUpdate_nostatus(r) ==
  /\ pc[r] = "err_update"
  /\ paper_status' = "error"
  /\ phases' = [phases EXCEPT ![r] = ErrorLastPhase(@)]
  /\ pc' = [pc EXCEPT ![r] = "err_insert"]
  /\ UNCHANGED <<envVars, auxVars, regVars, req, cancelVars, pcS, pcV, overall_status,
                 progress_pct, total_cost_usd, total_tokens_in, results, previous,
                 analysis_results>>

\* except Exception: UPDATE papers SET status = 'error'; overall_status = "error";
\* status.phases[-1].status = "error"
ErrUpdate(r) ==
  /\ pc[r] = "err_update"
  /\ paper_status' = "error"
  /\ overall_status' = [overall_status EXCEPT ![r] = "error"]
  /\ phases' = [phases EXCEPT ![r] = ErrorLastPhase(@)]
  /\ pc' = [pc EXCEPT ![r] = "err_insert"]
  /\ UNCHANGED <<envVars, auxVars, regVars, req, cancelVars, pcS, pcV, progress_pct,
                 total_cost_usd, total_tokens_in, results, previous, analysis_results>>

\* INSERT INTO analysis_results (paper_id, 'error', ...): cost_usd is NULL
ErrInsert(r) ==
  /\ pc[r] = "err_insert"
  /\ analysis_results' = analysis_results \cup
       {Row(r, "error", [kind |-> "error", body |-> <<>>], "system", 0, 0, 0)}
  /\ pc' = [pc EXCEPT ![r] = "done"]
  /\ Finally(r)
  /\ UNCHANGED <<envVars, auxVars, running_analyses, event_set, req, cancelVars, pcS, pcV,
                 overall_status, progress_pct, phases, total_cost_usd,
                 total_tokens_in, results, previous, paper_status>>

\* _cleanup_stale, after its sleep
CleanupStale(r) ==
  /\ cleanup_pending # <<>>
  /\ r = Head(cleanup_pending)
  /\ cleanup_pending' = Tail(cleanup_pending)
  /\ WithLock("_cleanup_stale")
  /\ running_analyses' =
       IF \E x \in running_analyses : overall_status[x] # "running"
         THEN {} ELSE running_analyses
  /\ UNCHANGED <<envVars, miniVars, hintVars, cancel_events, event_set, req, cancelVars,
                 runVars, paper_status, analysis_results>>

Next ==
  \/ \E h \in Reqs : StartCheck(h)
  \/ \E h \in Reqs : StartBudget(h)
  \/ \E h \in Reqs : StartLaunch(h)
  \/ cancel_analysis
  \/ \E r \in Runs : Register(r)
  \/ \E r \in Runs : MarkAnalyzing(r)
  \/ \E r \in Runs : LoadAndGather(r)
  \/ \E r \in Runs : CancelPersist(r)
  \/ \E r \in Runs : GatherStart(r)
  \/ \E r \in Runs : ScreeningCall(r)
  \/ \E r \in Runs : ScreeningFinish(r)
  \/ \E r \in Runs : VisualCall(r)
  \/ \E r \in Runs : VisualFinish(r)
  \/ \E r \in Runs : GatherRaise(r)
  \/ \E r \in Runs : GatherDone(r)
  \/ \E r \in Runs : RecipeFetch(r)
  \/ \E r \in Runs : RecipeCall(r)
  \/ \E r \in Runs : RecipeFinish(r)
  \/ \E r \in Runs : DeepDiveCall(r)
  \/ \E r \in Runs : DeepDiveFinish(r)
  \/ \E r \in Runs : PlanCall(r)
  \/ \E r \in Runs : PlanStore(r)
  \/ \E r \in Runs : VizStore(r)
  \/ \E r \in Runs : Complete(r)
  \/ \E r \in Runs : ErrUpdate(r)
  \/ \E r \in Runs : ErrInsert(r)
  \/ \E r \in Runs : CleanupStale(r)

Spec == Init /\ [][Next]_vars

(***************************************************************************)
(* The JSON helpers applied to every response text of at most MaxLen       *)
(* chunks.                                                                 *)
(***************************************************************************)
Texts == UNION {[1..k -> Tok] : k \in 0..MaxLen}

\* no request has been made of the orchestrator
CoreIdle ==
  /\ provider = Scenario({}, {}, {})
  /\ monthly_budget_limit = 6000
  /\ running_analyses = {}
  /\ cancel_events = {}
  /\ event_set = [r \in Runs |-> FALSE]
  /\ cleanup_pending = <<>>
  /\ req = [h \in Reqs |-> [pc |-> "idle", resp |-> 0, cleared |-> {}]]
  /\ cancels_left = 0
  /\ cancel_resp = 0
  /\ pc = [r \in Runs |-> "none"]
  /\ pcS = [r \in Runs |-> "none"]
  /\ pcV = [r \in Runs |-> "none"]
  /\ overall_status = [r \in Runs |-> "none"]
  /\ progress_pct = [r \in Runs |-> 0]
  /\ phases = [r \in Runs |-> <<>>]
  /\ total_cost_usd = [r \in Runs |-> 0]
  /\ total_tokens_in = [r \in Runs |-> 0]
  /\ results = [r \in Runs |-> [p \in PhaseCalls |-> NoResult]]
  /\ previous = [r \in Runs |-> <<>>]
  /\ paper_status = "pending"
  /\ analysis_results = {}
  /\ screening_domain = [r \in Runs |-> "none"]
  /\ latest_screening = "none"
  /\ recipe_hint = [r \in Runs |-> "none"]
  /\ lock_holder = "none"

OrchIdle == CoreIdle /\ CtxIdle /\ TgtIdle /\ OutIdle

InitJson ==
  /\ OrchIdle
  /\ GwIdle
  /\ CostIdle
  /\ DrIdle
  /\ VrIdle
  /\ RenderIdle
  /\ jtext \in Texts
  /\ jpc = "input"
  /\ jresult = NoResult

coreVars == <<provider, monthly_budget_limit, running_analyses, cancel_events,
              event_set, cleanup_pending, req, cancels_left, cancel_resp, pc, pcS, pcV,
              overall_status, progress_pct, phases, total_cost_usd,
              total_tokens_in, results, previous, paper_status, analysis_results,
              screening_domain, latest_screening, recipe_hint, lock_holder>>
orchVars == <<coreVars, ctxVars, tgtVars, outVars>>

\* gemini_client: result = _extract_json(response.text)
ExtractJson ==
  /\ jpc = "input"
  /\ jresult' = extract_json(jtext)
  /\ jpc' = "extracted"
  /\ UNCHANGED <<jtext, orchVars, gwVars, costVars, drVars, vrVars, renderVars>>

\* _run_screening lines 279-289: clean, json.loads, fallback payload
ValidateJson ==
  /\ jpc = "input"
  /\ jresult' = validate_json(jtext)
  /\ jpc' = "validated"
  /\ UNCHANGED <<jtext, orchVars, gwVars, costVars, drVars, vrVars, renderVars>>

NextJson == ExtractJson \/ ValidateJson

SpecJson == InitJson /\ [][NextJson]_vars

(***************************************************************************)
(* The retry loop of the Model Gateway: GeminiClient._call,                *)
(* GeminiClient.generate_image and ClaudeClient.generate_mermaid.          *)
(***************************************************************************)
Clients == {"gemini_call", "gemini_image", "claude_mermaid"}

\* what the provider does with one request: answer, or fail with HTTP 429,
\* HTTP 5xx, a connection error, HTTP 401/403, or a configuration error (an
\* exception that is no API error of the client library)
ErrKinds == {"ok", "rate_limit", "server", "connection", "auth", "config"}
Transient == {"rate_limit", "server", "connection"}
NonTransient == {"auth", "config"}

\* length of the environment's script of answers
ScriptLen == 4

Attempts_four == 3 + 1

\* for attempt in range(3)
Attempts == 3

\* the except clauses: "sleep" (asyncio.sleep(2 ** attempt), then the next
\* iteration), "next" (next iteration at once) or "raise" (the exception
\* leaves the method)
on_error(c, kind, att) ==
  IF c \in {"gemini_call", "gemini_image"}
    THEN \* except Exception
         IF att < 2 THEN "sleep" ELSE "next"
    ELSE IF kind \in {"rate_limit", "server", "auth"}
      THEN \* except anthropic.APIStatusError
           IF kind \in {"rate_limit", "server"} THEN "sleep" ELSE "raise"
    ELSE IF kind = "connection"
      THEN \* except anthropic.APIConnectionError
           IF att < 2 THEN "sleep" ELSE "next"
    ELSE "raise"

\* the loop moves to iteration att; its else clause raises RuntimeError
loop_to(att) == IF att < Attempts THEN "try" ELSE "runtime_error"

GwTerminal == {"returned", "raised", "runtime_error"}

InitGateway ==
  /\ OrchIdle
  /\ JsonIdle
  /\ CostIdle
  /\ DrIdle
  /\ VrIdle
  /\ RenderIdle
  /\ client \in Clients
  /\ script \in [1..ScriptLen -> ErrKinds]
  /\ gw_pc = "try"
  /\ attempt = 0
  /\ calls = 0
  /\ waits = <<>>

\* one iteration of the loop body up to its next await
GwAttempt ==
  /\ gw_pc = "try"
  /\ calls < Len(script)
  /\ calls' = calls + 1
  /\ LET kind == script[calls + 1]
         todo == on_error(client, kind, attempt)
     IN  IF kind = "ok"
           THEN gw_pc' = "returned" /\ UNCHANGED <<attempt, waits>>
         ELSE IF todo = "sleep"
           THEN /\ gw_pc' = "sleep"
                /\ waits' = Append(waits, 2 ^ attempt)
                /\ UNCHANGED attempt
         ELSE IF todo = "next"
           THEN /\ attempt' = attempt + 1
                /\ gw_pc' = loop_to(attempt + 1)
                /\ UNCHANGED waits
         ELSE gw_pc' = "raised" /\ UNCHANGED <<attempt, waits>>
  /\ UNCHANGED <<client, script, jsonVars, costVars, drVars, vrVars, renderVars,
                 orchVars>>

\* asyncio.sleep returns
GwWake ==
  /\ gw_pc = "sleep"
  /\ attempt' = attempt + 1
  /\ gw_pc' = loop_to(attempt + 1)
  /\ UNCHANGED <<client, script, calls, waits, jsonVars, costVars, drVars, vrVars, renderVars,
                 orchVars>>

NextGateway == GwAttempt \/ GwWake

SpecGateway == InitGateway /\ [][NextGateway]_vars

(***************************************************************************)
(* The cost functions: services/pricing.py calc_cost and                   *)
(* services/analysis_pipeline.py _calc_cost.  Rates are in cents per 1M    *)
(* tokens and costs in units of 1e-8 USD, so that one token at rate r      *)
(* costs r units.                                                          *)
(***************************************************************************)
PipelineModels == {"gemini-3-flash-preview", "gemini-3-pro-preview",
                   "claude-sonnet-4-5-20250929"}

\* _COST_TABLE
COST_TABLE ==
  [m \in PipelineModels |->
     CASE m = "gemini-3-flash-preview"      -> [input |-> 50,  output |-> 300]
       [] m = "gemini-3-pro-preview"        -> [input |-> 200, output |-> 1200]
       [] m = "claude-sonnet-4-5-20250929"  -> [input |-> 300, output |-> 1500]]

\* round(cost, 6): to the nearest multiple of 100 units, ties to even
round6(units) ==
  LET q == units \div 100
      r == units % 100
  IN  IF r < 50 THEN 100 * q
      ELSE IF r > 50 THEN 100 * (q + 1)
      ELSE IF q % 2 = 0 THEN 100 * q ELSE 100 * (q + 1)

\* _calc_cost of analysis_pipeline.py
pipeline_calc_cost(m, tin, tout) ==
  LET rates == IF m \in PipelineModels THEN COST_TABLE[m]
               ELSE [input |-> 0, output |-> 0]
  IN  round6(tin * rates.input + tout * rates.output)

CostFns == {"calc_cost", "pipeline_calc_cost"}

\* the rate table a cost function reads
RateTable(fn) == IF fn = "calc_cost" THEN PRICING ELSE COST_TABLE

\* model names passed to the functions: the tables' models and one that is in
\* neither table
ModelNames == Models \cup {"unknown-model"}

TokenCounts == {0, 2, 1000000}

InitPricing ==
  /\ OrchIdle
  /\ JsonIdle
  /\ GwIdle
  /\ DrIdle
  /\ VrIdle
  /\ RenderIdle
  /\ cost_fn \in CostFns
  /\ cost_model \in ModelNames
  /\ cost_tokens_in \in TokenCounts
  /\ cost_tokens_out \in TokenCounts
  /\ cost_usd = -1

CalcCost ==
  /\ cost_fn = "calc_cost"
  /\ cost_usd = -1
  /\ cost_usd' = calc_cost(cost_model, cost_tokens_in, cost_tokens_out)
  /\ UNCHANGED <<cost_fn, cost_model, cost_tokens_in, cost_tokens_out, jsonVars, gwVars,
                 drVars, vrVars, renderVars, orchVars>>

PipelineCalcCost ==
  /\ cost_fn = "pipeline_calc_cost"
  /\ cost_usd = -1
  /\ cost_usd' = pipeline_calc_cost(cost_model, cost_tokens_in, cost_tokens_out)
  /\ UNCHANGED <<cost_fn, cost_model, cost_tokens_in, cost_tokens_out, jsonVars, gwVars,
                 drVars, vrVars, renderVars, orchVars>>

NextPricing == CalcCost \/ PipelineCalcCost

SpecPricing == InitPricing /\ [][NextPricing]_vars

(***************************************************************************)
(* DomainRouter.classify.  Confidences are in thousandths.                 *)
(***************************************************************************)
\* DOMAINS, in dict order
DomainOrder == <<"optics", "bio", "ai_ml", "ee">>
DOMAINS == {DomainOrder[i] : i \in 1..Len(DomainOrder)}

CONFIDENCE_THRESHOLD == 700
AMBIGUITY_GAP == 150

\* what the keyword patterns of one domain find in a title and abstract:
\* <<score, number of patterns that matched>>.  Every matched pattern adds
\* at least 1 to the score.
KeywordHits == {<<0, 0>>, <<1, 1>>, <<2, 2>>, <<6, 3>>, <<7, 3>>, <<17, 3>>, <<20, 3>>}

score_of(h, k) == h[k][1]
matched_of(h, k) == h[k][2]

MaxOf(S) == CHOOSE x \in S : \A y \in S : y <= x

max_score(h) == MaxOf({score_of(h, k) : k \in DOMAINS})

\* max(normalized, key=...): the first domain, in dict order, with the top score
best_domain(h) ==
  LET i == CHOOSE i \in 1..Len(DomainOrder) :
             /\ score_of(h, DomainOrder[i]) = max_score(h)
             /\ \A j \in 1..(i - 1) : score_of(h, DomainOrder[j]) < max_score(h)
  IN  DomainOrder[i]

\* best_confidence: normalized[best_domain] = 1.0, capped by total_matches
best_confidence(h) ==
  LET total_matches == matched_of(h, best_domain(h))
      c == (1000 * score_of(h, best_domain(h))) \div max_score(h)
  IN  IF total_matches <= 1 THEN (IF c < 400 THEN c ELSE 400)
      ELSE IF total_matches <= 2 THEN (IF c < 600 THEN c ELSE 600)
      ELSE c

keyword_classify(h) ==
  IF max_score(h) = 0
    THEN [domain |-> "unknown", confidence |-> 0, method |-> "keyword",
          needs_confirmation |-> TRUE]
    ELSE [domain |-> best_domain(h), confidence |-> best_confidence(h),
          method |-> "keyword", needs_confirmation |-> FALSE]

\* sorted_scores[1] of the normalized scores, as a raw score
second_score(h) == MaxOf({score_of(h, k) : k \in DOMAINS \ {best_domain(h)}})

gap_is_ambiguous_le(h) ==
  1000 * (max_score(h) - second_score(h)) <= AMBIGUITY_GAP * max_score(h)

\* gap < AMBIGUITY_GAP, for gap = sorted_scores[0] - sorted_scores[1] of the
\* scores normalized by max_score
gap_is_ambiguous(h) ==
  1000 * (max_score(h) - second_score(h)) < AMBIGUITY_GAP * max_score(h)

\* keyword_result.needs_confirmation = True; return keyword_result
flagged(kr) == [kr EXCEPT !.needs_confirmation = TRUE]

\* _make_unknown_result
make_unknown_result ==
  [domain |-> "unknown", confidence |-> 0, method |-> "semantic",
   needs_confirmation |-> TRUE]

\* answers of GeminiClient.classify_domain: a dict with a domain (one of the
\* router's, "unknown", or a name the router does not know) and a
\* confidence, or an exception
SemanticDomains == DOMAINS \cup {"unknown", "physics"}
SemanticConfidences == {0, 600, 800, 1000}
SemanticAnswers ==
  [kind : {"answer"}, domain : SemanticDomains, confidence : SemanticConfidences]
    \cup {[kind |-> "raise", domain |-> "none", confidence |-> 0]}

semantic_result_unknown(kr, sem) ==
  IF sem.domain = kr.domain /\ sem.domain \in DOMAINS
    THEN [domain |-> sem.domain,
          confidence |-> IF (kr.confidence + sem.confidence) \div 2 + 150 > 1000
                          THEN 1000
                          ELSE (kr.confidence + sem.confidence) \div 2 + 150,
          method |-> "semantic", needs_confirmation |-> FALSE]
  ELSE IF sem.domain # kr.domain /\ sem.confidence > kr.confidence /\ sem.domain \in DOMAINS
    THEN [domain |-> sem.domain, confidence |-> (sem.confidence * 85) \div 100,
          method |-> "semantic",
          needs_confirmation |-> (sem.confidence * 85) \div 100 < CONFIDENCE_THRESHOLD]
  ELSE make_unknown_result

\* _semantic_classify, Step 3: the final result from the two signals
semantic_result(kr, sem) ==
  IF sem.domain = kr.domain
    THEN IF sem.domain \notin DOMAINS
           THEN make_unknown_result
           ELSE LET combined == (kr.confidence + sem.confidence) \div 2 + 150
                IN  [domain |-> sem.domain,
                     confidence |-> IF combined > 1000 THEN 1000 ELSE combined,
                     method |-> "semantic", needs_confirmation |-> FALSE]
  ELSE IF sem.confidence > kr.confidence /\ sem.domain \in DOMAINS
    THEN LET adjusted == (sem.confidence * 85) \div 100
         IN  [domain |-> sem.domain, confidence |-> adjusted,
              method |-> "semantic",
              needs_confirmation |-> adjusted < CONFIDENCE_THRESHOLD]
  ELSE IF kr.domain # "unknown" /\ kr.confidence > 0
    THEN flagged(kr)
  ELSE make_unknown_result

InitRouter ==
  /\ OrchIdle
  /\ JsonIdle
  /\ GwIdle
  /\ CostIdle
  /\ VrIdle
  /\ RenderIdle
  /\ hits \in [DOMAINS -> KeywordHits]
  /\ gemini \in BOOLEAN
  /\ dr_pc = "start"
  /\ keyword_result = NoDomainResult
  /\ semantic = NoSemantic
  /\ dr_result = NoDomainResult

\* classify up to its return or to the await of classify_domain
Classify ==
  /\ dr_pc = "start"
  /\ LET kr == keyword_classify(hits)
     IN  /\ keyword_result' = kr
         /\ IF kr.confidence >= CONFIDENCE_THRESHOLD /\ ~gap_is_ambiguous(hits)
              THEN dr_result' = kr /\ dr_pc' = "returned_keyword"
            ELSE IF ~gemini
              THEN dr_result' = flagged(kr) /\ dr_pc' = "semantic_unavailable"
            ELSE dr_pc' = "semantic_call" /\ UNCHANGED dr_result
  /\ UNCHANGED <<hits, gemini, semantic, jsonVars, gwVars, costVars, vrVars,
                 renderVars, orchVars>>

\* classify_domain returns or raises; _semantic_classify finishes
SemanticAnswer ==
  /\ dr_pc = "semantic_call"
  /\ \E sem \in SemanticAnswers :
       /\ semantic' = sem
       /\ dr_result' = IF sem.kind = "raise" THEN flagged(keyword_result)
                       ELSE semantic_result(keyword_result, sem)
  /\ dr_pc' = "returned_semantic"
  /\ UNCHANGED <<hits, gemini, keyword_result, jsonVars, gwVars, costVars, vrVars,
                 renderVars, orchVars>>

NextRouter == Classify \/ SemanticAnswer

SpecRouter == InitRouter /\ [][NextRouter]_vars

(***************************************************************************)
(* The visualization targets: VizRouter.route and _plan_visualizations.    *)
(* A list of targets is modelled by the sequence of its positions.         *)
(***************************************************************************)
\* largest number of diagrams in an answer of the classifier
MaxDiagrams == 6

\* what the heuristic can find in a Recipe result: steps, equipment and at
\* least 4 parameters; and in a Deep-Dive result: an analysis text of more
\* than 100 characters and a comparison of more than 50
RecipeResults ==
  {NoRecipe} \cup [present : {TRUE}, steps : BOOLEAN, equipment : BOOLEAN,
                   parameters : BOOLEAN]
DeepDiveResults ==
  {NoDeepDive} \cup [present : {TRUE}, analysis : BOOLEAN, comparison : BOOLEAN]

\* answers of the model: a JSON object with n diagrams (visualizations), a
\* text that is not JSON, or an exception
Responses ==
  [kind : {"json"}, n : 0..MaxDiagrams]
    \cup {[kind |-> "invalid", n |-> 0], [kind |-> "raise", n |-> 0]}

Count(b) == IF b THEN 1 ELSE 0

ListOf(n) == [i \in 1..n |-> i]

\* _extract_recipe_viz_targets
extract_recipe_viz_targets(rec) ==
  ListOf(Count(rec.steps) + Count(rec.equipment) + Count(rec.parameters))

\* _extract_deep_dive_viz_targets
extract_deep_dive_viz_targets(dd) ==
  ListOf(Count(dd.analysis) + Count(dd.comparison))

\* _route_heuristic
route_heuristic(rec, dd) ==
  ListOf(Len(IF rec.present THEN extract_recipe_viz_targets(rec) ELSE <<>>)
         + Len(IF dd.present THEN extract_deep_dive_viz_targets(dd) ELSE <<>>))

\* _parse_llm_response: one target per diagram of the answer, [] when the
\* answer does not parse
parse_llm_response(resp) ==
  IF resp.kind = "json" THEN ListOf(resp.n) ELSE <<>>

\* items = items[:5], after the single default flowchart for an unparsable plan
plan_items(resp) ==
  LET items == IF resp.kind = "json" THEN ListOf(resp.n) ELSE ListOf(1)
  IN  SubSeq(items, 1, IF Len(items) < 5 THEN Len(items) ELSE 5)

InitVizRoute ==
  /\ OrchIdle
  /\ JsonIdle
  /\ GwIdle
  /\ CostIdle
  /\ DrIdle
  /\ RenderIdle
  /\ vr_fn \in {"route", "plan"}
  /\ vr_gemini \in BOOLEAN
  /\ recipe_result \in RecipeResults
  /\ deep_dive_result \in DeepDiveResults
  /\ vr_pc = "start"
  /\ llm_response = NoResponse
  /\ targets = <<>>

\* route up to the await of self._gemini.generate, or to its return
RouteStart ==
  /\ vr_fn = "route"
  /\ vr_pc = "start"
  /\ IF vr_gemini /\ (recipe_result.present \/ deep_dive_result.present)
       THEN vr_pc' = "llm_call" /\ UNCHANGED targets
       ELSE /\ targets' = route_heuristic(recipe_result, deep_dive_result)
            /\ vr_pc' = "returned"
  /\ UNCHANGED <<vr_fn, vr_gemini, recipe_result, deep_dive_result, llm_response,
                 jsonVars, gwVars, costVars, drVars, renderVars, orchVars>>

\* the classifier answers or raises: its targets, or the heuristic's when it
\* gave none
RouteLlm ==
  /\ vr_fn = "route"
  /\ vr_pc = "llm_call"
  /\ \E resp \in Responses :
       /\ llm_response' = resp
       /\ targets' = IF resp.kind # "raise" /\ parse_llm_response(resp) # <<>>
                       THEN parse_llm_response(resp)
                       ELSE route_heuristic(recipe_result, deep_dive_result)
  /\ vr_pc' = "returned"
  /\ UNCHANGED <<vr_fn, vr_gemini, recipe_result, deep_dive_result,
                 jsonVars, gwVars, costVars, drVars, renderVars, orchVars>>

\* _plan_visualizations: the planner answers (an exception leaves the function)
PlanVisualizations ==
  /\ vr_fn = "plan"
  /\ vr_pc = "start"
  /\ \E resp \in Responses :
       /\ llm_response' = resp
       /\ IF resp.kind = "raise"
            THEN vr_pc' = "raised" /\ UNCHANGED targets
            ELSE vr_pc' = "returned" /\ targets' = plan_items(resp)
  /\ UNCHANGED <<vr_fn, vr_gemini, recipe_result, deep_dive_result,
                 jsonVars, gwVars, costVars, drVars, renderVars, orchVars>>

NextVizRoute == RouteStart \/ RouteLlm \/ PlanVisualizations

SpecVizRoute == InitVizRoute /\ [][NextVizRoute]_vars

(***************************************************************************)
(* _run_visualizations, Step 2 and 3: the generate_one tasks of a plan.    *)
(***************************************************************************)
\* largest number of items in a plan
MaxTargets == 3

\* item.get("tool", "mermaid")
Tools == {"mermaid", "paperbanana", "other"}

Plans == UNION {[1..k -> Tools] : k \in 0..MaxTargets}

InitRender ==
  /\ OrchIdle
  /\ JsonIdle
  /\ GwIdle
  /\ CostIdle
  /\ DrIdle
  /\ VrIdle
  /\ viz_plan \in Plans
  /\ viz_pc = "planned"
  /\ item_pc = [i \in DOMAIN viz_plan |-> "new"]
  /\ item_status = [i \in DOMAIN viz_plan |-> "none"]
  /\ render_outcome = [i \in DOMAIN viz_plan |-> "pending"]
  /\ placeholder = [i \in DOMAIN viz_plan |-> "unused"]
  /\ generated_items = <<>>

\* asyncio.gather(*tasks): every generate_one runs up to its first await
GatherRenders ==
  /\ viz_pc = "planned"
  /\ viz_pc' = "gather"
  /\ item_pc' = [i \in DOMAIN viz_plan |->
                   IF viz_plan[i] = "mermaid" THEN "call1"
                   ELSE IF viz_plan[i] = "paperbanana" THEN "bridge" ELSE "done"]
  /\ item_status' = [i \in DOMAIN viz_plan |->
                       IF viz_plan[i] \in {"mermaid", "paperbanana"}
                         THEN "generating" ELSE "error"]
  /\ UNCHANGED <<viz_plan, render_outcome, placeholder, generated_items,
                 jsonVars, gwVars, costVars, drVars, vrVars, orchVars>>

\* the task of item i ends with an exception that generate_one does not catch
render_uncaught(i) ==
  /\ viz_pc' = "raised"
  /\ item_pc' = [item_pc EXCEPT ![i] = "done"]
  /\ UNCHANGED item_status

\* except Exception as e: result_item["status"] = "error"
render_error(i) ==
  /\ item_status' = [item_status EXCEPT ![i] = "error"]
  /\ item_pc' = [item_pc EXCEPT ![i] = "done"]
  /\ UNCHANGED viz_pc

\* _generate_single_mermaid: the first `await _call_gemini` returns or raises
MermaidCall1(i) ==
  /\ item_pc[i] = "call1"
  /\ \E out \in {"ok", "raise"} :
       IF out = "ok"
         THEN /\ item_pc' = [item_pc EXCEPT ![i] = "call2"]
              /\ UNCHANGED <<item_status, render_outcome, viz_pc>>
         ELSE /\ render_outcome' = [render_outcome EXCEPT ![i] = "raise"]
              /\ render_error(i)
  /\ UNCHANGED <<viz_plan, placeholder, generated_items,
                 jsonVars, gwVars, costVars, drVars, vrVars, orchVars>>

\* the second `await _call_gemini` returns (status completed) or raises
MermaidCall2(i) ==
  /\ item_pc[i] = "call2"
  /\ \E out \in {"ok", "raise"} :
       /\ render_outcome' = [render_outcome EXCEPT ![i] = out]
       /\ IF out = "ok"
            THEN /\ item_status' = [item_status EXCEPT ![i] = "completed"]
                 /\ item_pc' = [item_pc EXCEPT ![i] = "done"]
                 /\ UNCHANGED viz_pc
            ELSE render_error(i)
  /\ UNCHANGED <<viz_plan, placeholder, generated_items,
                 jsonVars, gwVars, costVars, drVars, vrVars, orchVars>>

\* _generate_single_paperbanana: the bridge gives an image, gives none (not
\* available, or no path), exceeds the 180 s of wait_for, or raises; without
\* an image the PIL placeholder is drawn, and {} is returned when that fails
PaperBanana(i) ==
  /\ item_pc[i] = "bridge"
  /\ \E out \in {"ok", "no_image", "timeout", "raise"}, pil \in {"ok", "fail"} :
       /\ render_outcome' = [render_outcome EXCEPT ![i] = out]
       /\ placeholder' = [placeholder EXCEPT ![i] = IF out = "ok" THEN "unused" ELSE pil]
       /\ item_status' = [item_status EXCEPT
             ![i] = IF out = "ok" \/ pil = "ok" THEN "completed" ELSE "error"]
  /\ item_pc' = [item_pc EXCEPT ![i] = "done"]
  /\ UNCHANGED <<viz_plan, viz_pc, generated_items,
                 jsonVars, gwVars, costVars, drVars, vrVars, orchVars>>

\* gather returns the items; INSERT the visualization row
StoreRenders ==
  /\ viz_pc = "gather"
  /\ \A i \in DOMAIN viz_plan : item_pc[i] = "done"
  /\ generated_items' = item_status
  /\ viz_pc' = "returned"
  /\ UNCHANGED <<viz_plan, item_pc, item_status, render_outcome, placeholder,
                 jsonVars, gwVars, costVars, drVars, vrVars, orchVars>>

NextRender ==
  \/ GatherRenders
  \/ \E i \in DOMAIN viz_plan : MermaidCall1(i)
  \/ \E i \in DOMAIN viz_plan : MermaidCall2(i)
  \/ \E i \in DOMAIN viz_plan : PaperBanana(i)
  \/ StoreRenders

SpecRender == InitRender /\ [][NextRender]_vars

(***************************************************************************)
(* Properties                                                              *)
(***************************************************************************)
Terminal == {"completed", "error", "cancelled"}

\* run r has been accepted (202, task added) and has not reached a terminal state
(***************************************************************************)
(* The try / except / finally of _run_full_analysis for one registered     *)
(* run, with every await able to raise: the storage writes as well as the  *)
(* provider calls.  Only the control flow and overall_status are kept.     *)
(***************************************************************************)
\* how an await ends
AwaitOutcomes == {"ok", "raise"}

\* how a phase ends: its provider call or its INSERT may raise
PhaseOutcomes == {"ok", "provider_raise", "storage_raise"}

otherVars == <<coreVars, jsonVars, gwVars, costVars, drVars, vrVars, renderVars,
               ctxVars, tgtVars>>

InitOutcome ==
  /\ CoreIdle
  /\ JsonIdle
  /\ GwIdle
  /\ CostIdle
  /\ DrIdle
  /\ VrIdle
  /\ RenderIdle
  /\ CtxIdle
  /\ TgtIdle
  /\ ro_pc = "mark"
  /\ ro_status = "running"
  /\ ro_event = FALSE
  /\ ro_log = <<>>

Passed(step, out) == ro_log' = Append(ro_log, <<step, out>>)

\* the exception reaches `except Exception as e`, whose first statement is the
\* await of UPDATE papers SET status = 'error'
ToHandler == ro_pc' = "err_update" /\ UNCHANGED ro_status

\* if cancel_event.is_set(): status.overall_status = "cancelled"; await UPDATE
CheckCancel(next) ==
  IF ro_event
    THEN ro_status' = "cancelled" /\ ro_pc' = "cancel_update"
    ELSE ro_pc' = next /\ UNCHANGED ro_status

\* cancel_analysis while the event is registered: _cancel_events[paper_id].set()
RunCancel ==
  /\ ro_pc \notin {"idle", "ended"}
  /\ ~ro_event
  /\ ro_event' = TRUE
  /\ UNCHANGED <<ro_pc, ro_status, ro_log, otherVars>>

\* await execute_update(UPDATE papers SET status = 'analyzing')
RunMark ==
  /\ ro_pc = "mark"
  /\ \E out \in AwaitOutcomes :
       /\ Passed("mark", out)
       /\ IF out = "ok" THEN ro_pc' = "load" /\ UNCHANGED ro_status ELSE ToHandler
  /\ UNCHANGED <<ro_event, otherVars>>

\* await fetch_one(SELECT * FROM papers); get_pdf_text; first cancellation check
RunLoad ==
  /\ ro_pc = "load"
  /\ \E out \in AwaitOutcomes :
       /\ Passed("load", out)
       /\ IF out = "ok" THEN CheckCancel("gather") ELSE ToHandler
  /\ UNCHANGED <<ro_event, otherVars>>

\* await asyncio.gather(_run_screening, _run_visual); cancellation check
RunGather ==
  /\ ro_pc = "gather"
  /\ \E out \in PhaseOutcomes :
       /\ Passed("gather", out)
       /\ IF out = "ok" THEN CheckCancel("recipe") ELSE ToHandler
  /\ UNCHANGED <<ro_event, otherVars>>

\* await _run_recipe; cancellation check
RunRecipe ==
  /\ ro_pc = "recipe"
  /\ \E out \in PhaseOutcomes :
       /\ Passed("recipe", out)
       /\ IF out = "ok" THEN CheckCancel("deep_dive") ELSE ToHandler
  /\ UNCHANGED <<ro_event, otherVars>>

\* await _run_deep_dive; cancellation check
RunDeepDive ==
  /\ ro_pc = "deep_dive"
  /\ \E out \in PhaseOutcomes :
       /\ Passed("deep_dive", out)
       /\ IF out = "ok" THEN CheckCancel("viz") ELSE ToHandler
  /\ UNCHANGED <<ro_event, otherVars>>

\* try: await _run_visualizations  except Exception: warning; last check
RunViz ==
  /\ ro_pc = "viz"
  /\ \E out \in PhaseOutcomes :
       /\ Passed("viz", out)
       /\ CheckCancel("complete_update")
  /\ UNCHANGED <<ro_event, otherVars>>

\* await execute_update(... 'completed'); status.overall_status = "completed";
\* finally
RunComplete ==
  /\ ro_pc = "complete_update"
  /\ \E out \in AwaitOutcomes :
       /\ Passed("complete_update", out)
       /\ IF out = "ok" THEN ro_status' = "completed" /\ ro_pc' = "ended" ELSE ToHandler
  /\ UNCHANGED <<ro_event, otherVars>>

\* await execute_update(... 'cancelled'); return; finally
RunCancelPersist ==
  /\ ro_pc = "cancel_update"
  /\ \E out \in AwaitOutcomes :
       /\ Passed("cancel_update", out)
       /\ IF out = "ok" THEN ro_pc' = "ended" /\ UNCHANGED ro_status ELSE ToHandler
  /\ UNCHANGED <<ro_event, otherVars>>

\* except: await execute_update(... 'error'); status.overall_status = "error".
\* When the UPDATE raises, the assignment is not reached: finally, and the
\* exception ends the task.
RunErrUpdate ==
  /\ ro_pc = "err_update"
  /\ \E out \in AwaitOutcomes :
       /\ Passed("err_update", out)
       /\ IF out = "ok"
            THEN ro_status' = "error" /\ ro_pc' = "err_insert"
            ELSE ro_pc' = "ended" /\ UNCHANGED ro_status
  /\ UNCHANGED <<ro_event, otherVars>>

\* await execute_insert(... 'error' ...); finally
RunErrInsert ==
  /\ ro_pc = "err_insert"
  /\ \E out \in AwaitOutcomes : Passed("err_insert", out)
  /\ ro_pc' = "ended"
  /\ UNCHANGED <<ro_status, ro_event, otherVars>>

NextOutcome ==
  \/ RunCancel
  \/ RunMark
  \/ RunLoad
  \/ RunGather
  \/ RunRecipe
  \/ RunDeepDive
  \/ RunViz
  \/ RunComplete
  \/ RunCancelPersist
  \/ RunErrUpdate
  \/ RunErrInsert

SpecOutcome == InitOutcome /\ [][NextOutcome]_vars

(***************************************************************************)
(* The render target of one VizTarget: the loop body of                    *)
(* VizRouter._parse_llm_response and the targets _route_heuristic builds.  *)
(***************************************************************************)
MermaidCategories ==
  {"experimental_protocol", "algorithm_flow", "signal_flow", "system_architecture",
   "component_relationships", "timeline", "comparison"}

PaperBananaCategories ==
  {"equipment_appearance", "optical_table_layout", "cell_molecule_schematic",
   "physical_setup", "conceptual_illustration"}

DiagramCategory == MermaidCategories \cup PaperBananaCategories

ROUTING_TABLE == [c \in DiagramCategory |->
                    IF c \in MermaidCategories THEN "mermaid" ELSE "paperbanana"]

\* d["render_target"] of the answer: one of the two names, another string, or
\* no such key
Proposals == {"mermaid", "paperbanana", "svg", "absent"}

\* d["category"]: a member of DiagramCategory, another string, or none
AnswerCategories == DiagramCategory \cup {"lab photo", ""}

KeywordScores == 0..2

LlmDiagrams ==
  [from : {"llm"}, category : AnswerCategories, render_target : Proposals,
   pb_score : KeywordScores, mm_score : KeywordScores]

\* the five targets _extract_recipe_viz_targets and
\* _extract_deep_dive_viz_targets construct
HeuristicDiagrams ==
  {[from |-> "heuristic", category |-> c[1], render_target |-> c[2], pb_score |-> 0,
    mm_score |-> 0] :
     c \in {<<"experimental_protocol", "mermaid">>, <<"physical_setup", "paperbanana">>,
            <<"component_relationships", "mermaid">>, <<"algorithm_flow", "mermaid">>,
            <<"comparison", "mermaid">>}}

\* _classify_render_target: the table for a known category, else the keywords
classify_render_target(category, pb_score, mm_score) ==
  IF category \in DiagramCategory THEN ROUTING_TABLE[category]
  ELSE IF pb_score > mm_score THEN "paperbanana" ELSE "mermaid"

\* render_target = d.get("render_target", "mermaid"); classified only if it is
\* neither "mermaid" nor "paperbanana"
llm_render_target(d) ==
  LET render_target == IF d.render_target = "absent" THEN "mermaid" ELSE d.render_target
  IN  IF render_target \notin {"mermaid", "paperbanana"}
        THEN classify_render_target(d.category, d.pb_score, d.mm_score)
        ELSE render_target

InitTarget ==
  /\ CoreIdle
  /\ JsonIdle
  /\ GwIdle
  /\ CostIdle
  /\ DrIdle
  /\ VrIdle
  /\ RenderIdle
  /\ CtxIdle
  /\ OutIdle
  /\ diagram \in LlmDiagrams \cup HeuristicDiagrams
  /\ tg_pc = "start"
  /\ viz_target = NoTarget

\* targets.append(VizTarget(render_target=render_target, category=d.get("category", "")))
ParseDiagram ==
  /\ tg_pc = "start"
  /\ diagram.from = "llm"
  /\ viz_target' = [category |-> diagram.category,
                    render_target |-> llm_render_target(diagram)]
  /\ tg_pc' = "done"
  /\ UNCHANGED <<diagram, coreVars, jsonVars, gwVars, costVars, drVars, vrVars,
                 renderVars, ctxVars, outVars>>

\* VizTarget(render_target=RenderTarget.X.value, category=DiagramCategory.Y.value)
HeuristicTarget ==
  /\ tg_pc = "start"
  /\ diagram.from = "heuristic"
  /\ viz_target' = [category |-> diagram.category, render_target |-> diagram.render_target]
  /\ tg_pc' = "done"
  /\ UNCHANGED <<diagram, coreVars, jsonVars, gwVars, costVars, drVars, vrVars,
                 renderVars, ctxVars, outVars>>

NextTarget == ParseDiagram \/ HeuristicTarget

SpecTarget == InitTarget /\ [][NextTarget]_vars

(***************************************************************************)
(* The context of the Deep-Dive prompt: _run_full_analysis collects        *)
(* `previous` from r1, r2, r3 and _run_deep_dive joins and cuts it.        *)
(* A text is its stored payload and its length in characters.              *)
(***************************************************************************)
ContextPhases == <<"screening", "visual", "recipe">>

OutputChars == {100, 1400, 2000}

\* result["text"] of a phase that returned: validate_json of an answer that is
\* a JSON object, a JSON object with an "error" key, or not JSON
StoredTexts(p) ==
  {[phase |-> p, kind |-> validate_json(t).kind, body |-> validate_json(t).body,
    chars |-> c] : t \in {<<"O">>, <<"E">>, <<"W">>}, c \in OutputChars}

\* prev_context[:3000]
ContextLimit == 3000

\* len("\n\n")
SeparatorChars == 2

Min(a, b) == IF a <= b THEN a ELSE b

\* "\n\n".join(texts)[:n]: how many characters of each text are kept
RECURSIVE join_cut(_, _, _)
join_cut(texts, n, first) ==
  LET avail == IF first THEN n ELSE n - SeparatorChars IN
  IF texts = <<>> \/ avail <= 0 THEN <<>>
  ELSE LET c == Min(texts[1].chars, avail)
       IN  <<[phase |-> texts[1].phase, chars |-> c]>>
             \o join_cut(Tail(texts), avail - c, FALSE)

\* prev_context = "\n\n".join(previous_results[:3]); {prev_context[:3000]}
prev_context_of(previous_results) ==
  join_cut(SubSeq(previous_results, 1, Min(3, Len(previous_results))), ContextLimit, TRUE)

InitContext ==
  /\ CoreIdle
  /\ JsonIdle
  /\ GwIdle
  /\ CostIdle
  /\ DrIdle
  /\ VrIdle
  /\ RenderIdle
  /\ TgtIdle
  /\ OutIdle
  /\ dd_outputs \in {<<a, b, c>> : a \in StoredTexts("screening"),
                                  b \in StoredTexts("visual"),
                                  c \in StoredTexts("recipe")}
  /\ dd_pc = "returned"
  /\ dd_previous = <<>>
  /\ prev_context = <<>>

\* previous = []; previous.append(r["text"]) for r1, r2 and r3 that qualify
CollectPrevious ==
  /\ dd_pc = "returned"
  /\ dd_previous' = AppendIfOk(AppendIfOk(AppendIfOk(<<>>, dd_outputs[1]),
                                          dd_outputs[2]), dd_outputs[3])
  /\ dd_pc' = "collected"
  /\ UNCHANGED <<dd_outputs, prev_context, coreVars, jsonVars, gwVars, costVars,
                 drVars, vrVars, renderVars, tgtVars, outVars>>

\* _run_deep_dive builds its prompt
DeepDivePrompt ==
  /\ dd_pc = "collected"
  /\ prev_context' = prev_context_of(dd_previous)
  /\ dd_pc' = "prompt"
  /\ UNCHANGED <<dd_outputs, dd_previous, coreVars, jsonVars, gwVars, costVars,
                 drVars, vrVars, renderVars, tgtVars, outVars>>

NextContext == CollectPrevious \/ DeepDivePrompt

SpecContext == InitContext /\ [][NextContext]_vars

Active(r) == pc[r] # "none" /\ overall_status[r] \notin Terminal

RunPhases(r) == {phases[r][i].phase : i \in 1..Len(phases[r])}

PhaseEntryStatus(r, p) ==
  LET i == CHOOSE i \in 1..Len(phases[r]) : phases[r][i].phase = p
  IN  phases[r][i].status

\* C1: of two start requests for the paper issued before the first accepted
\* run is terminal, only one is accepted (202): two accepted requests never
\* have their runs active at the same time.
C1_OneStartAccepted ==
  \A a, b \in Reqs :
    (a # b /\ req[a].resp = 202 /\ req[b].resp = 202) => ~(Active(a) /\ Active(b))

C3_RejectLeavesRegistry ==
  \A h \in Reqs : req[h].resp = 402 => req[h].cleared = {}

\* the main task is suspended in a step that ends at a phase boundary
AtPhaseBoundary(r) == pc[r] \in {"load", "gather", "recipe_insert", "deep_insert"}

\* C4: when the cancel flag of a running run is set and the run reaches a phase
\* boundary, the run becomes cancelled there; Recipe, Deep-Dive and
\* Visualization never start with the flag set; and the cancelled run
\* persists the paper status cancelled.
C4_CancelStopsRun ==
  [][\A r \in Runs :
       /\ (event_set[r] /\ overall_status[r] = "running" /\ AtPhaseBoundary(r)
             /\ pc'[r] # pc[r])
          => (overall_status'[r] = "cancelled" /\ pc'[r] = "cancelling")
       /\ (pc'[r] # pc[r] /\ pc'[r] \in {"recipe_fetch", "deep_call", "plan_call"})
          => ~event_set[r]
       /\ (pc[r] = "cancelling" /\ pc'[r] = "done") => paper_status' = "cancelled"]_vars

\* C5: no step lowers the progress value of a run.
C5_ProgressMonotonic ==
  [][\A r \in Runs : progress_pct'[r] >= progress_pct[r]]_vars

\* Visual has finished first (40%) and Screening is about to finish (floor 20%)
C5_Witness ==
  \E r \in Runs : pcV[r] = "done" /\ pcS[r] = "insert" /\ progress_pct[r] = 40

\* C6: a finished run, never cancelled, whose Screening and Visual calls raise
\* and whose Recipe call is answered, has status completed.
C6_PartialSuccessCompleted ==
  \A r \in Runs :
    (pc[r] = "done" /\ cancels_left = MaxCancels
       /\ provider["screening"] = "raise" /\ provider["visual"] = "raise"
       /\ provider["recipe"] \in {"json", "fallback"})
    => overall_status[r] = "completed"

AllCallsRaise == \A p \in PhaseCalls : provider[p] = "raise"

\* C7: a finished run that started its phases while every provider call
\* raises has status error.
C7_AllFailError ==
  \A r \in Runs :
    (pc[r] = "done" /\ AllCallsRaise /\ phases[r] # <<>>) => overall_status[r] = "error"

C7_Witness ==
  \E r \in Runs :
    pc[r] = "done" /\ AllCallsRaise /\ pcS[r] = "raised" /\ overall_status[r] = "error"

\* C8: in a finished run that was never cancelled, every phase whose provider
\* call raises has its own entry with status error, and all four phases
\* have been started.
C8_PhaseErrorContained ==
  \A r \in Runs :
    (pc[r] = "done" /\ cancels_left = MaxCancels)
    => /\ {"screening", "visual", "recipe", "deep_dive"} \subseteq RunPhases(r)
       /\ \A p \in {"screening", "visual", "recipe", "deep_dive"} :
            provider[p] = "raise" => PhaseEntryStatus(r, p) = "error"

\* the response is JSON, bare or wrapped in a fence of its own lines
InputIsJson(t) ==
  \/ JsonValid(t)
  \/ \E open \in {"F", "FJ"}, body \in {"O", "E"} :
       Strip(t) \in {<<open, "NL", body, "NL", "F">>, <<open, "NL", body, "F">>}

\* C9: applied to any response text, the helpers do not raise; a text that is
\* not JSON yields the fallback payload holding the text, recognised as a
\* parse error; a text that is JSON is not recognised as a parse error.
C9_ParseErrorNeverRaised ==
  jpc \in {"extracted", "validated"}
  => /\ jresult.kind # "raised"
     /\ ~InputIsJson(jtext)
          => /\ jresult.kind = "fallback"
             /\ jresult.body \in {jtext, clean_llm_json(jtext)}
             /\ is_parse_error(jresult)
     /\ InputIsJson(jtext) => ~is_parse_error(jresult)

\* C10: no step removes a row of analysis_results or lowers the month's spend.
C10_LedgerAppendOnly ==
  [][/\ analysis_results \subseteq analysis_results'
     /\ current_spending' >= current_spending]_vars


\* C11: a cancel request is answered 200 exactly when, at the moment it is
\* handled, some accepted run has not reached a terminal state, and 404
\* otherwise.
C11_CancelResponse ==
  [][cancels_left' # cancels_left
       => cancel_resp' = (IF \E r \in Runs : Active(r) THEN 200 ELSE 404)]_vars

\* the script fails every attempt the loop can make with a transient error
AllTransient == \A i \in 1..Attempts : script[i] \in Transient

\* C12 as stated: when every attempt fails with a transient error the call
\* retries 3 times (the first attempt and 3 more) and then fails.
C12_RetriesThreeTimes ==
  (gw_pc \in GwTerminal /\ AllTransient /\ script[ScriptLen] \in Transient)
     => (gw_pc = "runtime_error" /\ calls - 1 = 3)

\* C12 amended: the call makes at most 3 attempts; each wait is 2^attempt
\* seconds and every retry is preceded by one; when the 3 attempts all fail
\* with a transient error the call ends with RuntimeError after exactly 3
\* attempts; and an attempt that succeeds ends the call.
C12_ThreeAttempts ==
  /\ calls <= 3
  /\ \A i \in 1..Len(waits) : waits[i] = 2 ^ (i - 1)
  /\ Len(waits) <= calls
  /\ calls >= 2 => Len(waits) >= calls - 1
  /\ (gw_pc \in GwTerminal /\ AllTransient)
       => (gw_pc = "runtime_error" /\ calls = 3)
  /\ gw_pc = "runtime_error" => calls = 3
  /\ (calls >= 1 /\ script[calls] = "ok") => gw_pc = "returned"

\* three transient failures have ended the call
C12_Witness ==
  gw_pc = "runtime_error" /\ calls = 3 /\ AllTransient /\ waits = <<1, 2>>

\* C13: an attempt that fails with a non-transient error ends the call with
\* that error: no wait is started and no further attempt is made.
C13_NonTransientPropagates ==
  [][(calls' = calls + 1 /\ script[calls'] \in NonTransient)
       => (gw_pc' = "raised" /\ waits' = waits)]_vars

\* the models of a rate table whose input and output rates are the lowest
CheapestTier(table) ==
  {m \in DOMAIN table : \A x \in DOMAIN table :
      table[m].input <= table[x].input /\ table[m].output <= table[x].output}

\* one cent is 1000000 units of 1e-8 USD
RateInUnits(cents) == cents * 1000000

\* C14: a computed cost for 1,000,000 input tokens and no output tokens of a
\* model of the rate table is that model's input rate, and a computed cost
\* for a model that is not in the table is the cost at the rates of the
\* table's cheapest tier.
C14_CostOfRateTable ==
  cost_usd # -1 =>
    LET table == RateTable(cost_fn)
    IN  /\ (cost_model \in DOMAIN table /\ cost_tokens_in = 1000000 /\ cost_tokens_out = 0)
             => cost_usd = RateInUnits(table[cost_model].input)
        /\ cost_model \notin DOMAIN table
             => \E m \in CheapestTier(table) :
                   cost_usd = cost_tokens_in * table[m].input + cost_tokens_out * table[m].output

\* the top keyword score (after the cap) and the second-best normalized score
TopScore == keyword_classify(hits).confidence
SecondBest == (1000 * second_score(hits)) \div max_score(hits)

KeywordConfident ==
  max_score(hits) > 0 /\ TopScore >= 700 /\ TopScore - SecondBest >= 150

NeitherConfident ==
  /\ dr_pc = "returned_semantic" /\ semantic.kind = "answer"
  /\ semantic.domain # keyword_result.domain
  /\ ~(semantic.confidence > keyword_result.confidence)

\* C16 as stated: when neither signal is confident classify returns the
\* domain unknown with needs_confirmation = true.
C16_NeitherGivesUnknown ==
  NeitherConfident =>
    (dr_result.domain = "unknown" /\ dr_result.needs_confirmation)

\* C16 amended: when neither signal is confident classify returns the keyword
\* result (its domain and confidence) with needs_confirmation = true; the
\* domain is unknown only when no keyword matched.
C16_NeitherGivesKeywordFlagged ==
  NeitherConfident =>
    /\ dr_result.needs_confirmation
    /\ dr_result.domain = keyword_result.domain
    /\ dr_result.confidence = keyword_result.confidence
    /\ (dr_result.domain = "unknown" <=> max_score(hits) = 0)

C16_Witness ==
  NeitherConfident /\ dr_result.domain \in DOMAINS /\ dr_result.method = "keyword"

\* C17: the list of targets that route or the planner returns has at most
\* 5 elements.
C17_AtMostFiveTargets == Len(targets) <= 5

\* the render of target i failed or exceeded its time ceiling
RenderFailed(i) == render_outcome[i] \in {"raise", "timeout"}

\* target i has no result: its model call raised, or its illustration failed
\* and the placeholder too, or no renderer exists for its tool
TargetFailed(i) ==
  \/ viz_plan[i] = "mermaid" /\ render_outcome[i] = "raise"
  \/ viz_plan[i] = "paperbanana" /\ render_outcome[i] # "ok" /\ placeholder[i] = "fail"
  \/ viz_plan[i] \notin {"mermaid", "paperbanana"}

AllItemsStored ==
  viz_pc = "returned" =>
    /\ generated_items = item_status
    /\ \A i \in DOMAIN viz_plan : generated_items[i] \in {"completed", "error"}

\* C18 as stated: a render that fails or exceeds its time ceiling makes the
\* status of that target error, no other target is error, every target is in
\* the stored result and the rendering is not aborted.
C18_FailedRenderIsError ==
  /\ viz_pc # "raised"
  /\ \A i \in DOMAIN viz_plan :
       item_pc[i] = "done" /\ viz_plan[i] \in {"mermaid", "paperbanana"}
         => (item_status[i] = "error" <=> RenderFailed(i))
  /\ AllItemsStored

\* C18 amended: the status of a target is error exactly when its own render
\* left it without a result (an illustration that failed or timed out gets
\* the placeholder image and is completed unless the placeholder fails too);
\* every target is in the stored result and the rendering is not aborted.
C18_RenderIsolation ==
  /\ viz_pc # "raised"
  /\ \A i \in DOMAIN viz_plan :
       item_pc[i] = "done"
         => item_status[i] = (IF TargetFailed(i) THEN "error" ELSE "completed")
  /\ AllItemsStored

\* a stored plan with a failed render next to a successful one
C18_Witness ==
  /\ viz_pc = "returned"
  /\ \E i, j \in DOMAIN viz_plan :
       /\ RenderFailed(i) /\ generated_items[i] = "error"
       /\ render_outcome[j] = "ok" /\ generated_items[j] = "completed"

\* C19: the Recipe phase depends only on the document's raw text: two runs over
\* the same text hand the same input to the Recipe model call, whatever the
\* Screening phase produced or persisted.  (One paper: every run has the same
\* text, and the prompt is fixed text, the excerpt of that text and
\* domain_hint, so two inputs are equal exactly when their domain_hint is.)
C19_RecipeInputFromTextOnly ==
  \A r1, r2 \in Runs :
    recipe_hint[r1] # "none" /\ recipe_hint[r2] # "none"
      => recipe_hint[r1] = recipe_hint[r2]

\* the _cleanup_stale task of run x is sleeping
Sleeping(x) == \E i \in DOMAIN cleanup_pending : cleanup_pending[i] = x

\* the eviction TTL of run x has elapsed: its finally block ran and the sleep
\* it started there is over
TtlElapsed(x) == pc[x] = "done" /\ ~Sleeping(x)

\* C20: a _cleanup_stale task that wakes removes the entry of run x only when
\* x is not running and the TTL of x itself has elapsed (x is the run that
\* scheduled the task, or a run whose own task woke before).
C20_EvictionAfterOwnTtl ==
  [][\A x \in running_analyses :
       (/\ cleanup_pending # <<>>
        /\ cleanup_pending' = Tail(cleanup_pending)
        /\ x \notin running_analyses')
         => /\ overall_status[x] # "running"
            /\ (x = Head(cleanup_pending) \/ TtlElapsed(x))]_vars

\* phase p of run r has finished: its status entry is completed
Finished(r, p) == p \in RunPhases(r) /\ PhaseEntryStatus(r, p) = "completed"

\* the Visualization stage of run r has been entered and not yet left
VizStarted(r) == pc[r] \in {"plan_call", "plan_insert", "viz_insert"}

\* C21: within one run Recipe has started only if Screening and Visual have
\* both finished, Deep-Dive only if Recipe has finished, and Visualization
\* only if Deep-Dive has finished.
C21_DependentPhasesInOrder ==
  \A r \in Runs :
    /\ "recipe" \in RunPhases(r)
         => /\ Finished(r, "screening") /\ Finished(r, "visual")
            /\ pcS[r] = "done" /\ pcV[r] = "done"
    /\ "deep_dive" \in RunPhases(r) => Finished(r, "recipe")
    /\ VizStarted(r) => Finished(r, "deep_dive")

\* a run in its Visualization stage: all three dependent starts have happened
C21_Witness ==
  \E r \in Runs :
    /\ pc[r] = "viz_insert"
    /\ {"screening", "visual", "recipe", "deep_dive"} \subseteq RunPhases(r)

\* phase i completed with a parseable result that does not report an error
Successful(i) == dd_outputs[i].kind = "json" /\ ~JsonHasErrorKey(dd_outputs[i].body)

\* some of, and all of, the output of phase i is in the Deep-Dive prompt
InContext(i) == \E k \in DOMAIN prev_context : prev_context[k].phase = ContextPhases[i]

WholeInContext(i) ==
  \E k \in DOMAIN prev_context :
    /\ prev_context[k].phase = ContextPhases[i]
    /\ prev_context[k].chars = dd_outputs[i].chars

\* C22: the context of the Deep-Dive prompt holds the whole output of every
\* earlier phase that completed with a parseable result, and nothing of the
\* output of a failed or unparseable phase.
C22_DeepDiveContextExact ==
  dd_pc = "prompt"
    => \A i \in 1..3 : IF Successful(i) THEN WholeInContext(i) ELSE ~InContext(i)

\* the sum of field f over the entries of a phase list
RECURSIVE SumField(_, _)
SumField(ps, f) == IF ps = <<>> THEN 0 ELSE ps[1][f] + SumField(Tail(ps), f)

\* the planner's call of run r has returned: the Visualization-Plan phase has
\* its cost and tokens
PlanFinished(r) == results[r]["viz_plan"] # NoResult

PlanResult == call_gemini("json", "gemini-3-pro-preview")

\* C23: the cost and token totals of a run equal the sums of the costs and
\* tokens of its finished phases (the four phases whose status entry carries
\* them, and the Visualization-Plan call), under every interleaving of
\* Screening and Visual: no contribution is lost or counted twice.
C23_TotalsAreSumOfPhases ==
  \A r \in Runs :
    /\ total_cost_usd[r] =
         SumField(phases[r], "cost_usd")
           + (IF PlanFinished(r)
                THEN calc_cost(PlanResult.model, PlanResult.tokens_in, PlanResult.tokens_out)
                ELSE 0)
    /\ total_tokens_in[r] =
         SumField(phases[r], "tokens_in")
           + (IF PlanFinished(r) THEN PlanResult.tokens_in ELSE 0)

\* a run whose four phases and planner call have all contributed
C23_Witness ==
  \E r \in Runs :
    /\ PlanFinished(r)
    /\ \A p \in {"screening", "visual", "recipe", "deep_dive"} : Finished(r, p)
    /\ total_cost_usd[r] > 0 /\ total_tokens_in[r] = 5 * PlanResult.tokens_in

\* C24: a visualization target whose category is in the routing table has
\* the render target the table assigns to that category, whatever the
\* classifier proposed.
C24_TableDecidesRenderTarget ==
  tg_pc = "done" /\ viz_target.category \in DiagramCategory
    => viz_target.render_target = ROUTING_TABLE[viz_target.category]

\* a provider call (a phase's model call, the planner's, or a render's) of
\* some run is in flight
ProviderCallInFlight ==
  \E r \in Runs :
    \/ pcS[r] = "call" \/ pcV[r] = "call"
    \/ pc[r] \in {"recipe_call", "deep_call", "plan_call", "viz_insert"}

\* C25: whenever a provider call is in flight no coroutine holds the registry
\* lock, so a start request or an eviction that needs the lock is not kept
\* waiting by a provider call.
C25_NoLockAcrossProviderCall ==
  ProviderCallInFlight => lock_holder = "none"

\* Screening and Visual of one run are in flight after the run took the lock
\* to register, and a request of the same paper passes its lock section
C25_Witness ==
  \E r \in Runs, h \in Reqs :
    /\ pcS[r] = "call" /\ pcV[r] = "call" /\ r \in running_analyses
    /\ h # r /\ req[h].resp = 409

\* the PhaseResult rows of run r (the row of phase 'error' is the handler's)
PhaseRows(r) == {x \in analysis_results : x.run = r /\ x.phase # "error"}

\* C26: once the status of a run is terminal, no step changes the run's
\* progress, phase list or cost and token totals, or persists a further
\* PhaseResult of the run.
C26_NoWritesAfterTerminal ==
  [][\A r \in Runs :
       overall_status[r] \in Terminal
         => /\ progress_pct'[r] = progress_pct[r]
            /\ phases'[r] = phases[r]
            /\ total_cost_usd'[r] = total_cost_usd[r]
            /\ total_tokens_in'[r] = total_tokens_in[r]
            /\ PhaseRows(r)' \subseteq PhaseRows(r)]_vars

\* C27: a run whose cancel request was accepted while it was in progress (its
\* flag is set and its status is running) leaves status running only for
\* cancelled, and a status that is cancelled is never changed afterwards.
C27_AcceptedCancelEndsCancelled ==
  [][\A r \in Runs :
       /\ event_set[r] /\ overall_status[r] = "running"
            => overall_status'[r] \in {"running", "cancelled"}
       /\ overall_status[r] = "cancelled" => overall_status'[r] = "cancelled"]_vars

\* C28: a registered run whose task has ended (its finally block ran) has
\* left status running for one of completed, error and cancelled, whatever
\* each provider call and each storage write did; a run that ended as
\* running stays running for ever.
C28_EndedRunIsTerminal ==
  ro_pc = "ended" => ro_status \in Terminal

\* the phases of run r whose exception is on its way to the except block: a
\* task of the gather that raised, or else the sequential phase under call
RaisedPhases(r) ==
  IF pcS[r] = "raised" \/ pcV[r] = "raised"
    THEN {p \in {"screening"} : pcS[r] = "raised"} \cup {p \in {"visual"} : pcV[r] = "raised"}
    ELSE {phases[r][i].phase : i \in {Len(phases[r])} \cap DOMAIN phases[r]}

\* C29: when the except block records the error of a run, the entry of every
\* phase that raised becomes error and the entry of no other phase is changed
\* to error.
C29_ErrorOnRaisingPhase ==
  [][\A r \in Runs :
       pc[r] = "err_update" /\ pc'[r] = "err_insert"
         => \A i \in DOMAIN phases[r] :
              IF phases[r][i].phase \in RaisedPhases(r)
                THEN phases'[r][i].status = "error"
                ELSE phases'[r][i].status = phases[r][i].status]_vars

\* classify has returned, by any of its paths
ClassifyReturned ==
  dr_pc \in {"returned_keyword", "semantic_unavailable", "returned_semantic"}

\* C30: every classification that classify returns with needs_confirmation
\* false has a confidence of at least CONFIDENCE_THRESHOLD, whichever path
\* produced it.
C30_UnflaggedIsConfident ==
  ClassifyReturned /\ ~dr_result.needs_confirmation
    => dr_result.confidence >= CONFIDENCE_THRESHOLD

=============================================================================
